---- MODULE Spec2Model ----
(***************************************************************************)
(* Team Tracker: the task, notification and activity-log routes of the    *)
(* Express server, the Notification and ActivityLog models and the         *)
(* notification and activity-logging helpers, as a state machine over the  *)
(* document store.                                                         *)
(*                                                                         *)
(* A reference to a user travels through the handlers in four forms: an    *)
(* ObjectId, its 24-character hex string, a populated User document and    *)
(* the string a populated document yields under toString() (Mongoose's     *)
(* Document.prototype.toString returns the inspect text of the document,   *)
(* not its _id).  The handlers compare references with                     *)
(* a.toString() === b.toString(), so the form matters and is modelled.     *)
(***************************************************************************)
EXTENDS Integers, Sequences, FiniteSets

VARIABLES tasks, notifications, nextNotifId, now, last,
          activityLogs, nextLogId, saveFails, projects, pending

vars ==
  <<tasks, notifications, nextNotifId, now, last,
    activityLogs, nextLogId, saveFails, projects, pending>>

\* the ActivityLog collection and its id counter
logStore == <<activityLogs, nextLogId>>

----------------------------------------------------------------------------
(* Bounds *)

NumUsers == 3
MaxTasks == 2
MaxCreated == 1
MaxNotifs == 2
MaxComments == 2
MaxClock == 2
MaxLogs == 3
MaxVersion == 4
MaxRequests == 2
MaxText == 52

----------------------------------------------------------------------------
(* Users and roles *)

UserNames == <<"u1", "u2", "u3", "u4", "u5">>

Users == {UserNames[i] : i \in 1..NumUsers}

\* an identifier that names no stored user
Ghost == "ghost"

Absent == "absent"

Role(u) ==
  IF u = "u1" THEN "admin" ELSE IF u = "u2" THEN "manager" ELSE "member"

\* authorize("admin", "manager") in front of POST / and PUT /:id
authorize(u, roles) == Role(u) \in roles

TaskIds == 1..MaxTasks

ProjectIds == {1}

\* a project_id that is undefined or null
NoProjectId == 0

\* a well-formed project id that names no stored project
GhostProject == 2

\* the requests that can be between two of their awaits at once
Slots == 1..MaxRequests

NotifIds == 1..MaxNotifs

LogIds == 1..MaxLogs

\* the collections whose save() can fail
Collections == {"Notification", "ActivityLog"}

NullDate == 0

----------------------------------------------------------------------------
(* References and their conversions *)

Oid(u) == [kind |-> "oid", id |-> u]
Hex(u) == [kind |-> "hex", id |-> u]
Doc(u) == [kind |-> "doc", id |-> u]
Inspect(u) == [kind |-> "inspect", id |-> u]

\* .toString(): an ObjectId gives its hex string, a string is itself, a
\* populated document gives its inspect text
ToString(v) ==
  CASE v.kind = "oid" -> Hex(v.id)
    [] v.kind = "hex" -> v
    [] v.kind = "doc" -> Inspect(v.id)
    [] OTHER -> v

CastError == "CastError"

\* the cast of a value stored into an ObjectId path: an ObjectId, a hex
\* string and a document (through its _id) cast; any other string does not
CastObjectId(v) ==
  IF v.kind \in {"oid", "hex", "doc"} THEN v.id ELSE CastError

\* an identifier in the sense of the helpers' documentation (ObjectId or
\* its hex string)
IsIdentifier(v) == v.kind \in {"oid", "hex"}

----------------------------------------------------------------------------
(* Task model *)

Statuses == {"todo", "in-progress", "completed"}

\* title stands for the scalar paths only POST / and PUT /:id write (title,
\* description, priority, dueDate); version is the versionKey __v
NoTask ==
  [exists |-> FALSE, title |-> Absent, assignee_id |-> Absent,
   project_id |-> NoProjectId, createdBy |-> Absent,
   status |-> "todo", completedAt |-> NullDate,
   comments |-> <<>>, version |-> 0]

----------------------------------------------------------------------------
(* Project model *)

\* a project id is never reused: "none" has not been created yet,
\* "deleted" was stored once
NoProject == [state |-> "none", owner |-> Absent]


----------------------------------------------------------------------------
(* Notification model *)

NotificationTypes ==
  {"task_assigned", "task_updated", "task_completed", "task_reassigned",
   "comment_added", "project_assigned"}

NullResult ==
  [ok |-> FALSE, recipient |-> Absent, sender |-> Absent, type |-> Absent,
   title |-> Absent, relatedTask |-> 0]

\* Notification.createNotification: new this(data) then save(); save()
\* validates the ObjectId casts and the type enum and throws on failure,
\* as it does when the write itself fails. The caller's catch turns a
\* throw into null.
createNotification(data) ==
  IF /\ "Notification" \notin saveFails
     /\ CastObjectId(data.recipient) # CastError
     /\ CastObjectId(data.sender) # CastError
     /\ data.type \in NotificationTypes
  THEN [ok |-> TRUE, recipient |-> CastObjectId(data.recipient),
        sender |-> CastObjectId(data.sender), type |-> data.type,
        title |-> data.title, relatedTask |-> data.relatedTask]
  ELSE NullResult

TaskNotificationTitle(type) ==
  CASE type = "task_assigned" -> "New Task Assigned"
    [] type = "task_updated" -> "Task Updated"
    [] type = "task_completed" -> "Task Completed"
    [] type = "task_reassigned" -> "Task Reassigned"
    [] OTHER -> "Task Notification"

SameUserNoCheck(recipientId, senderId) == FALSE

\* the helpers' guard: recipientId.toString() === senderId.toString()
SameUser(recipientId, senderId) == ToString(recipientId) = ToString(senderId)

createTaskNotification(recipientId, senderId, tid, type) ==
  IF SameUser(recipientId, senderId) THEN NullResult
  ELSE createNotification(
         [recipient |-> recipientId, sender |-> senderId, type |-> type,
          title |-> TaskNotificationTitle(type), relatedTask |-> tid])

createCommentNotification(recipientId, senderId, tid) ==
  IF SameUser(recipientId, senderId) THEN NullResult
  ELSE createNotification(
         [recipient |-> recipientId, sender |-> senderId,
          type |-> "comment_added", title |-> "New Comment on Task",
          relatedTask |-> tid])

TruncatedTextShort(commentText) ==
  IF Len(commentText) > 49
  THEN SubSeq(commentText, 1, 49) \o <<".", ".", ".">>
  ELSE commentText

\* truncatedText: commentText.substring(0, 50) + "..." for a text of more
\* than 50 characters
TruncatedText(commentText) ==
  IF Len(commentText) > 50
  THEN SubSeq(commentText, 1, 50) \o <<".", ".", ".">>
  ELSE commentText

\* the results of a sequence of createTaskNotification calls
TaskResults(calls, tid) ==
  [i \in 1..Len(calls) |->
     createTaskNotification(calls[i].recipient, calls[i].sender, tid,
                            calls[i].type)]

\* the results of a request's helper calls that produced a document
Created(results) == SelectSeq(results, LAMBDA r : r.ok)

\* the stored documents of the created results, with fresh ids
Stored(results, firstId) ==
  LET c == Created(results)
  IN {[id |-> firstId + i - 1, recipient |-> c[i].recipient,
       sender |-> c[i].sender, type |-> c[i].type, title |-> c[i].title,
       relatedTask |-> c[i].relatedTask,
       isRead |-> FALSE, readAt |-> NullDate] : i \in 1..Len(c)}

NoCall == [recipient |-> Oid(Absent), sender |-> Oid(Absent), type |-> Absent]

\* room in the bounded store for the documents a request creates
Room(results) == nextNotifId + Len(Created(results)) - 1 <= MaxNotifs

\* the query of an activity-log listing that filters nothing
NoQuery ==
  [page |-> 1, limit |-> 1, action |-> Absent, entityType |-> Absent,
   userId |-> Absent, startDate |-> NullDate, endDate |-> NullDate]

\* a daysToKeep of a cleanup body: absent, a number (counted in half days,
\* the unit of the clock, so that 1 is half a day and 2 a whole day) or a
\* text that is no number
NoDays == [kind |-> "absent", halves |-> 0]
Days(h) == [kind |-> "number", halves |-> h]
NotANumber == [kind |-> "text", halves |-> 0]

\* a slot that holds no request. A request between two awaits holds what it
\* has read or built so far: the task document (found, or new and not yet
\* saved); the update document a PUT or PATCH hands to findByIdAndUpdate
\* (a path that is Absent, NoProjectId for project_id, is not in the
\* document, and completedAt is in it only when setsCompletedAt); for a
\* comment route the comment it pushes, the id and new fields of the one it
\* edits or the id of the one it pulls; for markAsRead the id of the
\* notification and the readAt it has set on the loaded document.
NoPending ==
  [op |-> "idle", actor |-> Absent, tid |-> 0, pid |-> NoProjectId,
   loaded |-> NoTask,
   updates |-> [status |-> Absent, assignee_id |-> Absent,
                project_id |-> NoProjectId, setsCompletedAt |-> FALSE,
                completedAt |-> NullDate],
   comment |-> [id |-> 0, author |-> Absent, text |-> "",
                timestamp |-> NullDate],
   nid |-> 0, readAt |-> NullDate]

\* no request made yet. A direct call of createCommentNotification records
\* the task title and the comment text it is given, as sequences of
\* characters, and the message it builds.
Idle ==
  [op |-> "init", actor |-> Absent, code |-> 0, tid |-> 0, pre |-> NoTask,
   results |-> <<>>, firstId |-> 1, nid |-> 0, call |-> NoCall,
   firstLogId |-> 1, cid |-> 0, count |-> 0, page |-> <<>>,
   query |-> NoQuery, days |-> NoDays, segment |-> [kind |-> "none", nid |-> 0],
   title |-> <<>>, text |-> <<>>, message |-> <<>>, total |-> 0]

ReqFailsOnNull(op, actor, code, tid, results) ==
  [Idle EXCEPT !.op = op, !.actor = actor,
     !.code = IF \E i \in 1..Len(results) : ~results[i].ok THEN 500
              ELSE code,
     !.tid = tid,
     !.pre = IF tid \in TaskIds THEN tasks[tid] ELSE NoTask,
     !.results = results, !.firstId = nextNotifId,
     !.firstLogId = nextLogId]

\* what a request left behind: the handler, the acting user, the HTTP status,
\* the task addressed and its stored state before the request, and the
\* results of the helper calls it made
\* (for a route whose path ends in a parameter: the segment of the request;
\* for a notification route: the notification addressed; for a comment
\* route: the comment addressed; for a direct call of a helper: its
\* arguments; for the activity-log routes: the query or the daysToKeep of
\* the request, the page and the count of the response)
Req(op, actor, code, tid, results) ==
  [Idle EXCEPT !.op = op, !.actor = actor, !.code = code, !.tid = tid,
     !.pre = IF tid \in TaskIds THEN tasks[tid] ELSE NoTask,
     !.results = results, !.firstId = nextNotifId,
     !.firstLogId = nextLogId]

\* a request that ends before any write: only the HTTP status is kept
Reject(op, actor, code, tid) ==
  /\ last' = Req("rejected", Absent, code, 0, <<>>)
  /\ UNCHANGED <<projects, pending, tasks, notifications, nextNotifId, now, logStore,
                 saveFails>>

\* persist the results of the helper calls of a request
Notify(results) ==
  /\ Room(results)
  /\ notifications' = notifications \cup Stored(results, nextNotifId)
  /\ nextNotifId' = nextNotifId + Len(Created(results))

----------------------------------------------------------------------------
(* ActivityLog model and the activity logger *)

ActivityActions ==
  {"user_login", "user_logout", "user_register", "project_created",
   "project_updated", "project_deleted", "task_created", "task_updated",
   "task_assigned", "task_reassigned", "task_status_changed",
   "task_completed", "task_deleted", "task_commented", "comment_updated",
   "comment_deleted", "team_member_added", "team_member_updated",
   "team_member_removed"}

EntityTypes == {"user", "project", "task", "comment", "team_member"}

NullLog ==
  [ok |-> FALSE, userId |-> Absent, action |-> Absent,
   entityType |-> Absent, entityId |-> 0, relatedEntityId |-> 0]

\* ActivityLog.logActivity: new this(data), save(); a validation or write
\* failure is caught and null is returned
logActivity(data) ==
  IF /\ "ActivityLog" \notin saveFails
     /\ CastObjectId(data.userId) # CastError
     /\ data.action \in ActivityActions
     /\ data.entityType \in EntityTypes
  THEN [ok |-> TRUE, userId |-> CastObjectId(data.userId),
        action |-> data.action, entityType |-> data.entityType,
        entityId |-> data.entityId,
        relatedEntityId |-> data.relatedEntityId]
  ELSE NullLog

\* logTaskActivity: the entity is the task (projects are not part of the
\* state, so there is no related entity)
logTaskActivity(userId, action, tid) ==
  logActivity([userId |-> userId, action |-> action, entityType |-> "task",
               entityId |-> tid, relatedEntityId |-> 0])

\* logProjectActivity: the entity is the project
logProjectActivity(userId, action, pid) ==
  logActivity([userId |-> userId, action |-> action,
               entityType |-> "project", entityId |-> pid,
               relatedEntityId |-> 0])

logCommentActivityOnTask(userId, action, tid, cid) ==
  logActivity([userId |-> userId, action |-> action, entityType |-> "task",
               entityId |-> tid, relatedEntityId |-> 0])

\* logCommentActivity: the entity is the comment, the related entity the
\* task
logCommentActivity(userId, action, tid, cid) ==
  logActivity([userId |-> userId, action |-> action,
               entityType |-> "comment", entityId |-> cid,
               relatedEntityId |-> tid])

\* the entries a request's logger calls produced, with fresh ids and the
\* createdAt that timestamps: true writes
StoredLogs(results, firstId, time) ==
  LET c == SelectSeq(results, LAMBDA r : r.ok)
  IN {[id |-> firstId + i - 1, userId |-> c[i].userId,
       action |-> c[i].action, entityType |-> c[i].entityType,
       entityId |-> c[i].entityId,
       relatedEntityId |-> c[i].relatedEntityId,
       createdAt |-> time] : i \in 1..Len(c)}

LogOverwrites(results) ==
  LET made == Len(SelectSeq(results, LAMBDA r : r.ok))
  IN /\ nextLogId + made - 1 <= MaxLogs
     /\ activityLogs' = StoredLogs(results, nextLogId, now)
     /\ nextLogId' = nextLogId + made

\* persist the results of the logger calls of a request
Log(results) ==
  LET made == Len(SelectSeq(results, LAMBDA r : r.ok))
  IN /\ nextLogId + made - 1 <= MaxLogs
     /\ activityLogs' =
          activityLogs \cup StoredLogs(results, nextLogId, now)
     /\ nextLogId' = nextLogId + made

----------------------------------------------------------------------------
(* POST /api/tasks *)

\* request bodies: title and description present or not, and the assignee
CreateBodies ==
  [hasTitle : {TRUE}, assignee_id : Users \cup {Absent, Ghost},
   project_id : {NoProjectId}]
    \cup {[hasTitle |-> FALSE, assignee_id |-> Absent,
           project_id |-> NoProjectId]}

\* the first free task id
FreeTask(t) ==
  /\ ~tasks[t].exists
  /\ \A s \in TaskIds : s < t => tasks[s].exists

CreateCallsAsUpdate(actor, body) ==
  <<[recipient |-> Hex(body.assignee_id), sender |-> Oid(actor),
     type |-> "task_updated"]>>

\* "Create notification if task is assigned to someone": the recipient is
\* the assignee_id string of the request body
CreateCalls(actor, body) ==
  IF body.assignee_id # Absent
  THEN <<[recipient |-> Hex(body.assignee_id), sender |-> Oid(actor),
          type |-> "task_assigned"]>>
  ELSE <<>>

\* "Log task creation activity"
CreateLogAction(body) ==
  IF body.assignee_id # Absent THEN "task_assigned" ELSE "task_created"

\* the error response of POST /, 0 when there is none: authorize, the
\* validation, "Verify project exists", "Verify assignee exists", and the
\* ValidationError save() throws for a missing assignee_id (required by the
\* schema)
CreateRefusal(actor, body) ==
  IF ~authorize(actor, {"admin", "manager"}) THEN 403
  ELSE IF ~body.hasTitle THEN 400
  ELSE IF /\ body.project_id # NoProjectId
          /\ ~(/\ body.project_id \in ProjectIds
               /\ projects[body.project_id].state = "stored")
  THEN 404
  ELSE IF body.assignee_id = Ghost THEN 404
  ELSE IF body.assignee_id = Absent THEN 400
  ELSE 0

CreateTask(actor, body) ==
  IF CreateRefusal(actor, body) # 0
  THEN Reject("createTask", actor, CreateRefusal(actor, body), 0)
  ELSE IF "Task" \in saveFails
  THEN Reject("createTask", actor, 500, 0)
  ELSE \E t \in TaskIds :
         LET calls == CreateCalls(actor, body)
             results == TaskResults(calls, t)
         IN /\ FreeTask(t)
            /\ tasks' = [tasks EXCEPT ![t] =
                 [exists |-> TRUE, title |-> "t",
                  assignee_id |-> body.assignee_id,
                  project_id |-> body.project_id,
                  createdBy |-> actor, status |-> "todo",
                  completedAt |-> NullDate, comments |-> <<>>,
                  version |-> 0]]
            /\ Notify(results)
            /\ Log(<<logTaskActivity(Oid(actor), CreateLogAction(body),
                                     t)>>)
            /\ last' = [Req("createTask", actor, 201, t, results)
                          EXCEPT !.pre = NoTask]
            /\ UNCHANGED <<projects, pending, now, saveFails>>

----------------------------------------------------------------------------
(* PUT /api/tasks/:id *)

\* request bodies: any subset of the fields status and assignee_id (other
\* fields of the task are not part of the state), a status outside the
\* enum, an assignee that names no user
UpdateBodies ==
  [status : Statuses \cup {Absent}, assignee_id : Users \cup {Absent},
   project_id : {NoProjectId}]
    \cup {[status |-> "bogus", assignee_id |-> Absent,
           project_id |-> NoProjectId],
          [status |-> Absent, assignee_id |-> Ghost,
           project_id |-> NoProjectId]}

\* "Handle task completion": the completedAt the update writes. A body
\* without a status has updates.status === undefined, which is
\* !== "completed".
UpdatedCompletedAt(bodyStatus, stored, time) ==
  IF bodyStatus = "completed" /\ stored.status # "completed" THEN time
  ELSE IF bodyStatus # "completed" THEN NullDate
  ELSE stored.completedAt

IsReassignmentAlways(body, stored) == body.assignee_id # Absent

\* updates.assignee_id && updates.assignee_id.toString() !==
\* existingTask.assignee_id?.toString()
IsReassignment(body, stored) ==
  /\ body.assignee_id # Absent
  /\ ToString(Hex(body.assignee_id)) # ToString(Oid(stored.assignee_id))

\* Task.findByIdAndUpdate(taskId, updates, {new: true}) and its populate
UpdatedTask(body, stored, time) ==
  [stored EXCEPT
     !.status = IF body.status = Absent THEN @ ELSE body.status,
     !.assignee_id = IF body.assignee_id = Absent THEN @
                     ELSE body.assignee_id,
     !.project_id = IF body.project_id = NoProjectId THEN @
                    ELSE body.project_id,
     !.completedAt = UpdatedCompletedAt(body.status, stored, time)]

\* "Create notifications for task updates": the helper calls of the
\* if / else-if chain. updatedTask.assignee_id is a populated document.
PutCalls(actor, body, stored, updated) ==
  IF IsReassignment(body, stored) /\ body.assignee_id # Absent
  THEN <<[recipient |-> Hex(body.assignee_id), sender |-> Oid(actor),
          type |-> "task_reassigned"]>>
  ELSE IF body.status = "completed" /\ stored.status # "completed"
  THEN IF ToString(Oid(stored.createdBy)) # ToString(Oid(actor))
       THEN <<[recipient |-> Oid(stored.createdBy), sender |-> Oid(actor),
               type |-> "task_completed"]>>
       ELSE <<>>
  ELSE IF ToString(Doc(updated.assignee_id)) # ToString(Oid(actor))
  THEN <<[recipient |-> Doc(updated.assignee_id), sender |-> Oid(actor),
          type |-> "task_updated"]>>
  ELSE <<>>

PutLogActionStatusFirst(body, stored) ==
  IF body.status = "completed" /\ stored.status # "completed"
  THEN "task_completed"
  ELSE IF IsReassignment(body, stored) THEN "task_reassigned"
  ELSE IF body.status # Absent /\ body.status # stored.status
  THEN "task_status_changed"
  ELSE "task_updated"

\* "Log task activity based on what was updated": the action of the
\* if / else-if chain
PutLogAction(body, stored) ==
  IF IsReassignment(body, stored) THEN "task_reassigned"
  ELSE IF body.status = "completed" /\ stored.status # "completed"
  THEN "task_completed"
  ELSE IF body.status # Absent /\ body.status # stored.status
  THEN "task_status_changed"
  ELSE "task_updated"

\* the error response of PUT /:id, 0 when there is none: authorize, "Find
\* the task first", "Verify project exists", "Verify assignee exists", and
\* the ValidationError of runValidators for a status outside the enum
PutRefusal(actor, tid, body) ==
  IF ~authorize(actor, {"admin", "manager"}) THEN 403
  ELSE IF ~tasks[tid].exists THEN 404
  ELSE IF /\ body.project_id # NoProjectId
          /\ ~(/\ body.project_id \in ProjectIds
               /\ projects[body.project_id].state = "stored")
  THEN 404
  ELSE IF body.assignee_id = Ghost THEN 404
  ELSE IF body.status = "bogus" THEN 400
  ELSE 0

PutTask(actor, tid, body) ==
  IF PutRefusal(actor, tid, body) # 0
  THEN Reject("putTask", actor, PutRefusal(actor, tid, body), tid)
  ELSE IF "Task" \in saveFails
  THEN Reject("putTask", actor, 500, tid)
  ELSE LET stored == tasks[tid]
           updated == UpdatedTask(body, stored, now)
           calls == PutCalls(actor, body, stored, updated)
           results == TaskResults(calls, tid)
       IN /\ tasks' = [tasks EXCEPT ![tid] = updated]
          /\ Notify(results)
          /\ Log(<<logTaskActivity(Oid(actor), PutLogAction(body, stored),
                                   tid)>>)
          /\ last' = Req("putTask", actor, 200, tid, results)
          /\ UNCHANGED <<projects, pending, now, saveFails>>

----------------------------------------------------------------------------
(* PATCH /api/tasks/:id/status *)

\* "Update completion timestamp"
PatchCompletedAt(status, stored, time) ==
  IF status = "completed" /\ stored.status # "completed" THEN time
  ELSE IF status # "completed" THEN NullDate
  ELSE stored.completedAt

\* "Create notification when task is completed"
PatchCalls(actor, status, stored) ==
  IF status = "completed" /\ stored.status # "completed"
  THEN IF ToString(Oid(stored.createdBy)) # ToString(Oid(actor))
       THEN <<[recipient |-> Oid(stored.createdBy), sender |-> Oid(actor),
               type |-> "task_completed"]>>
       ELSE <<>>
  ELSE <<>>

PatchStatusNoValidation(actor, tid, status) ==
  IF ~tasks[tid].exists
     THEN Reject("patchStatus", actor, 404, tid)
     ELSE LET stored == tasks[tid]
              calls == PatchCalls(actor, status, stored)
              results == TaskResults(calls, tid)
          IN /\ tasks' = [tasks EXCEPT ![tid] =
                  [stored EXCEPT !.status = status,
                     !.completedAt = PatchCompletedAt(status, stored, now)]]
             /\ Notify(results)
             /\ last' = Req("patchStatus", actor, 200, tid, results)
             /\ UNCHANGED <<projects, pending, now, logStore, saveFails>>

\* the handler: a status that is missing or outside the three values is
\* refused, the task found, and findByIdAndUpdate sets the paths of the
\* update document, status and completedAt
PatchStatus(actor, tid, status) ==
  IF status \notin Statuses
     THEN Reject("patchStatus", actor, 400, tid)
     ELSE IF ~tasks[tid].exists
     THEN Reject("patchStatus", actor, 404, tid)
     ELSE LET stored == tasks[tid]
              calls == PatchCalls(actor, status, stored)
              results == TaskResults(calls, tid)
          IN /\ tasks' = [tasks EXCEPT ![tid] =
                  [stored EXCEPT !.status = status,
                     !.completedAt = PatchCompletedAt(status, stored, now)]]
             /\ Notify(results)
             /\ last' = Req("patchStatus", actor, 200, tid, results)
             /\ UNCHANGED <<projects, pending, now, logStore, saveFails>>

----------------------------------------------------------------------------
(* POST /api/tasks/:id/comments *)

\* new Set(), .add(): a value is appended unless it is already a member
SetAdd(set, v) ==
  IF \E i \in 1..Len(set) : set[i] = v THEN set ELSE Append(set, v)

RECURSIVE AddCommenters(_, _, _)
\* task.comments.forEach: after populate("comments.author") every author
\* is a populated document, the one of the comment just pushed included
AddCommenters(set, comments, actor) ==
  IF comments = <<>> THEN set
  ELSE AddCommenters(
         IF ToString(Doc(Head(comments).author)) # ToString(Oid(actor))
         THEN SetAdd(set, ToString(Doc(Head(comments).author)))
         ELSE set,
         Tail(comments), actor)

\* notificationRecipients, in insertion order: the assignee, the creator
\* (both unpopulated ObjectIds of the task found by id), the commenters
NotificationRecipients(task, actor) ==
  LET withAssignee ==
        IF ToString(Oid(task.assignee_id)) # ToString(Oid(actor))
        THEN SetAdd(<<>>, ToString(Oid(task.assignee_id)))
        ELSE <<>>
      withCreator ==
        IF ToString(Oid(task.createdBy)) # ToString(Oid(actor))
        THEN SetAdd(withAssignee, ToString(Oid(task.createdBy)))
        ELSE withAssignee
  IN AddCommenters(withCreator, task.comments, actor)

\* "Send notifications": one createCommentNotification per recipient
CommentResults(recipients, actor, tid) ==
  [i \in 1..Len(recipients) |->
     createCommentNotification(recipients[i], Oid(actor), tid)]

\* the comment texts of request bodies
BodyTexts == {"", " ", "a", " b "}

\* text.trim()
Trim(text) ==
  CASE text = " " -> ""
    [] text = " b " -> "b"
    [] OTHER -> text

CommentIds == 1..MaxComments

\* the _id of a new subdocument: an id no comment of the task has
NewCommentId(comments) ==
  CHOOSE c \in CommentIds :
    /\ \A i \in 1..Len(comments) : comments[i].id # c
    /\ \A d \in CommentIds :
         d < c => \E i \in 1..Len(comments) : comments[i].id = d

AddCommentNotifyFirst(actor, tid, text) ==
  IF Trim(text) = ""
  THEN Reject("addComment", actor, 400, tid)
  ELSE IF ~tasks[tid].exists
  THEN Reject("addComment", actor, 404, tid)
  ELSE LET stored == tasks[tid]
           cid == NewCommentId(stored.comments)
           saved == [stored EXCEPT
                       !.comments = Append(@, [id |-> cid, author |-> actor,
                                               text |-> Trim(text),
                                               timestamp |-> now]),
                       !.version = @ + 1]
           results == CommentResults(NotificationRecipients(saved, actor),
                                     actor, tid)
       IN /\ Len(stored.comments) < MaxComments
          /\ stored.version < MaxVersion
          /\ Notify(results)
          /\ Log(<<logCommentActivity(Oid(actor), "task_commented", tid,
                                      cid)>>)
          /\ IF "Task" \in saveFails
             THEN /\ last' = Req("rejected", Absent, 500, 0, <<>>)
                  /\ UNCHANGED tasks
             ELSE /\ tasks' = [tasks EXCEPT ![tid] = saved]
                  /\ last' = [Req("addComment", actor, 201, tid, results)
                                EXCEPT !.cid = cid]
          /\ UNCHANGED <<projects, pending, now, saveFails>>

\* the handler: validation, Task.findById, push and task.save(), then the
\* notifications and the log entry; a save that throws ends it with 500
AddComment(actor, tid, text) ==
  IF Trim(text) = ""
  THEN Reject("addComment", actor, 400, tid)
  ELSE IF ~tasks[tid].exists
  THEN Reject("addComment", actor, 404, tid)
  ELSE IF "Task" \in saveFails
  THEN Reject("addComment", actor, 500, tid)
  ELSE LET stored == tasks[tid]
           cid == NewCommentId(stored.comments)
           saved == [stored EXCEPT
                       !.comments = Append(@, [id |-> cid, author |-> actor,
                                               text |-> Trim(text),
                                               timestamp |-> now]),
                       !.version = @ + 1]
           results == CommentResults(NotificationRecipients(saved, actor),
                                     actor, tid)
       IN /\ Len(stored.comments) < MaxComments
          /\ stored.version < MaxVersion
          /\ tasks' = [tasks EXCEPT ![tid] = saved]
          /\ Notify(results)
          /\ Log(<<logCommentActivity(Oid(actor), "task_commented", tid,
                                      cid)>>)
          /\ last' = [Req("addComment", actor, 201, tid, results)
                        EXCEPT !.cid = cid]
          /\ UNCHANGED <<projects, pending, now, saveFails>>

----------------------------------------------------------------------------
(* PUT and DELETE /api/tasks/:taskId/comments/:commentId *)

\* task.comments.id(commentId), as the set of positions it finds
CommentAt(comments, cid) ==
  {i \in 1..Len(comments) : comments[i].id = cid}

MayChangeCommentAnyone(actor, comment) == TRUE

\* "Check if user is the author of the comment or admin": the task is not
\* populated here, so comment.author is an ObjectId
MayChangeComment(actor, comment) ==
  ~(/\ ToString(Oid(comment.author)) # ToString(Oid(actor))
    /\ Role(actor) # "admin")

\* a response of a comment route that wrote nothing
CommentRefused(op, actor, code, tid, cid) ==
  /\ last' = [Req(op, actor, code, tid, <<>>) EXCEPT !.cid = cid]
  /\ UNCHANGED <<projects, pending, tasks, notifications, nextNotifId, now, logStore,
                 saveFails>>

EditComment(actor, tid, cid, text) ==
  IF Trim(text) = ""
  THEN Reject("editComment", actor, 400, tid)
  ELSE IF ~tasks[tid].exists
  THEN Reject("editComment", actor, 404, tid)
  ELSE IF CommentAt(tasks[tid].comments, cid) = {}
  THEN Reject("editComment", actor, 404, tid)
  ELSE LET stored == tasks[tid]
           i == CHOOSE j \in CommentAt(stored.comments, cid) : TRUE
       IN IF ~MayChangeComment(actor, stored.comments[i])
          THEN CommentRefused("editComment", actor, 403, tid, cid)
          ELSE /\ tasks' = [tasks EXCEPT ![tid].comments[i] =
                            [@ EXCEPT !.text = Trim(text),
                                      !.timestamp = now]]
               /\ last' = [Req("editComment", actor, 200, tid, <<>>)
                             EXCEPT !.cid = cid]
               /\ UNCHANGED <<projects, pending, notifications, nextNotifId, now, logStore,
                              saveFails>>

\* task.comments.pull({_id: commentId})
Pull(comments, cid) == SelectSeq(comments, LAMBDA c : c.id # cid)

DeleteComment(actor, tid, cid) ==
  IF ~tasks[tid].exists
  THEN Reject("deleteComment", actor, 404, tid)
  ELSE IF CommentAt(tasks[tid].comments, cid) = {}
  THEN Reject("deleteComment", actor, 404, tid)
  ELSE LET stored == tasks[tid]
           i == CHOOSE j \in CommentAt(stored.comments, cid) : TRUE
       IN IF ~MayChangeComment(actor, stored.comments[i])
          THEN CommentRefused("deleteComment", actor, 403, tid, cid)
          ELSE /\ stored.version < MaxVersion
               /\ tasks' = [tasks EXCEPT ![tid] =
                            [stored EXCEPT
                               !.comments = Pull(stored.comments, cid),
                               !.version = @ + 1]]
               /\ last' = [Req("deleteComment", actor, 200, tid, <<>>)
                             EXCEPT !.cid = cid]
               /\ UNCHANGED <<projects, pending, notifications, nextNotifId, now, logStore,
                              saveFails>>

----------------------------------------------------------------------------
(* The notification routes *)

\* the notification a findOne({_id, recipient}) returns, as a set
FindOwn(actor, nid) ==
  {n \in notifications : n.id = nid /\ n.recipient = actor}

markAsReadUnguarded(n, time) == [n EXCEPT !.isRead = TRUE, !.readAt = time]

markAsReadNoDate(n, time) ==
  IF ~n.isRead THEN [n EXCEPT !.isRead = TRUE] ELSE n

\* NotificationSchema.methods.markAsRead
markAsRead(n, time) ==
  IF ~n.isRead THEN [n EXCEPT !.isRead = TRUE, !.readAt = time] ELSE n

\* PATCH /api/notifications/:id/read
MarkRead(actor, nid) ==
  IF FindOwn(actor, nid) = {}
  THEN Reject("markRead", actor, 404, 0)
  ELSE /\ notifications' =
            {IF n \in FindOwn(actor, nid) THEN markAsRead(n, now) ELSE n :
               n \in notifications}
       /\ last' = [Req("markRead", actor, 200, 0, <<>>) EXCEPT !.nid = nid]
       /\ UNCHANGED <<projects, pending, tasks, nextNotifId, now, logStore, saveFails>>

markMultipleQueryAnyRecipient(n, recipientId, notificationIds) ==
  /\ ~n.isRead
  /\ notificationIds # {} => n.id \in notificationIds

\* the query of markMultipleAsRead: {recipient, isRead: false} and, when ids
\* are given, _id: {$in: notificationIds}
markMultipleQuery(n, recipientId, notificationIds) ==
  /\ n.recipient = recipientId
  /\ ~n.isRead
  /\ notificationIds # {} => n.id \in notificationIds

\* NotificationSchema.statics.markMultipleAsRead: updateMany(query,
\* {isRead: true, readAt: new Date()})
markMultipleAsRead(store, recipientId, notificationIds, time) ==
  {IF markMultipleQuery(n, recipientId, notificationIds)
   THEN [n EXCEPT !.isRead = TRUE, !.readAt = time] ELSE n : n \in store}

\* PATCH /api/notifications/mark-all-read
MarkAllRead(actor, notificationIds) ==
  /\ notifications' =
       markMultipleAsRead(notifications, actor, notificationIds, now)
  /\ last' = Req("markAllRead", actor, 200, 0, <<>>)
  /\ UNCHANGED <<projects, pending, tasks, nextNotifId, now, logStore, saveFails>>

\* the last path segment of a request: an id or a literal
IdSegment(nid) == [kind |-> "id", nid |-> nid]
ClearAllSegment == [kind |-> "clear-all", nid |-> 0]
MyTasksSegment == [kind |-> "my-tasks", nid |-> 0]

\* a parameter matches any segment, a literal itself only
RouteMatches(route, segment) ==
  CASE route = "/:id" -> TRUE
    [] route = "/clear-all" -> segment.kind = "clear-all"
    [] route = "/my-tasks" -> segment.kind = "my-tasks"
    [] OTHER -> FALSE

\* a response of a route whose path ends in a segment, with no write
Respond(op, actor, code, segment) ==
  /\ last' = [Req(op, actor, code, 0, <<>>) EXCEPT !.segment = segment]
  /\ UNCHANGED <<tasks, notifications, nextNotifId, now, logStore,
                 saveFails, projects, pending>>

\* Express dispatch: the first registered route that matches
FirstMatch(routes, segment) ==
  routes[CHOOSE i \in 1..Len(routes) :
           /\ RouteMatches(routes[i], segment)
           /\ \A j \in 1..(i - 1) : ~RouteMatches(routes[j], segment)]

\* router.delete("/:id"): a segment that is no ObjectId is a CastError
DeleteById(actor, segment) ==
  IF segment.kind # "id"
  THEN Respond("deleteNotif", actor, 400, segment)
  ELSE IF FindOwn(actor, segment.nid) = {}
  THEN Respond("deleteNotif", actor, 404, segment)
  ELSE /\ notifications' = notifications \ FindOwn(actor, segment.nid)
       /\ last' = [Req("deleteNotif", actor, 200, 0, <<>>)
                     EXCEPT !.nid = segment.nid, !.segment = segment]
       /\ UNCHANGED <<projects, pending, tasks, nextNotifId, now, logStore, saveFails>>

\* router.delete("/clear-all"): deleteMany({recipient, isRead: true})
ClearAll(actor) ==
  /\ notifications' =
       {n \in notifications : ~(n.recipient = actor /\ n.isRead)}
  /\ last' = [Req("clearAll", actor, 200, 0, <<>>)
                EXCEPT !.segment = ClearAllSegment]
  /\ UNCHANGED <<projects, pending, tasks, nextNotifId, now, logStore, saveFails>>

\* DELETE /api/notifications/<segment>: the DELETE routes of the router
\* are, in registration order, "/:id" and "/clear-all"
DeleteRequest(actor, segment) ==
  IF FirstMatch(<<"/:id", "/clear-all">>, segment) = "/:id"
  THEN DeleteById(actor, segment)
  ELSE ClearAll(actor)

----------------------------------------------------------------------------
(* GET /api/tasks/<segment> *)

RECURSIVE Descending(_)
\* sort({createdAt: -1}) of tasks: a task with a greater id was created
\* later
Descending(ids) ==
  IF ids = {} THEN <<>>
  ELSE LET m == CHOOSE i \in ids : \A j \in ids : j <= i
       IN <<m>> \o Descending(ids \ {m})

\* GET /api/tasks/<segment>: the routes with a path of one segment are, in
\* registration order, "/:id" and "/my-tasks".
\* router.get("/:id"): Task.findById(req.params.id); a segment that is no
\* ObjectId is a CastError.
\* router.get("/my-tasks"): Task.find({assignee_id: req.user._id})
GetTaskRequest(actor, segment) ==
  IF FirstMatch(<<"/:id", "/my-tasks">>, segment) = "/:id"
  THEN IF segment.kind # "id"
       THEN Respond("getTask", actor, 400, segment)
       ELSE IF segment.nid \notin TaskIds \/ ~tasks[segment.nid].exists
       THEN Respond("getTask", actor, 404, segment)
       ELSE /\ last' = [Req("getTask", actor, 200, segment.nid, <<>>)
                          EXCEPT !.segment = segment,
                                 !.page = <<segment.nid>>]
            /\ UNCHANGED <<tasks, notifications, nextNotifId, now, logStore,
                           saveFails, projects, pending>>
  ELSE /\ last' = [Req("myTasks", actor, 200, 0, <<>>)
                     EXCEPT !.segment = MyTasksSegment,
                            !.page = Descending(
                              {t \in TaskIds : /\ tasks[t].exists
                                               /\ tasks[t].assignee_id = actor})]
       /\ UNCHANGED <<tasks, notifications, nextNotifId, now, logStore,
                      saveFails, projects, pending>>

----------------------------------------------------------------------------
(* The activity-log routes *)

\* parseInt(daysToKeep) with the default 90, in half days: the fraction of
\* a number is dropped (towards zero), a text that is no number gives NaN
ParseIntDays(d) ==
  CASE d.kind = "absent" -> [nan |-> FALSE, halves |-> 180]
    [] d.kind = "text" -> [nan |-> TRUE, halves |-> 0]
    [] d.halves >= 0 -> [nan |-> FALSE, halves |-> 2 * (d.halves \div 2)]
    [] OTHER ->
         [nan |-> FALSE, halves |-> 0 - 2 * ((0 - d.halves) \div 2)]

\* deleteMany({createdAt: {$lt: cutoffDate}}): the entries it removes
OlderThan(store, cutoff) == {e \in store : e.createdAt < cutoff}

\* DELETE /api/activity-logs/cleanup
Cleanup(actor, daysToKeep) ==
  IF ~authorize(actor, {"admin"})
  THEN Reject("cleanup", actor, 403, 0)
  ELSE IF ParseIntDays(daysToKeep).nan
  THEN \* the cutoff is an Invalid Date: the query's cast throws
       Reject("cleanup", actor, 500, 0)
  ELSE LET cutoffDate == now - ParseIntDays(daysToKeep).halves
           removed == OlderThan(activityLogs, cutoffDate)
       IN /\ activityLogs' = activityLogs \ removed
          /\ last' = [Req("cleanup", actor, 200, 0, <<>>)
                        EXCEPT !.days = daysToKeep,
                               !.count = Cardinality(removed)]
          /\ UNCHANGED <<projects, pending, tasks, notifications, nextNotifId, now, nextLogId,
                         saveFails>>

\* the query getUserActivity / getSystemActivity build from the options:
\* userId is the userId parameter on GET / and the requesting user on
\* GET /my-activity
LogQuery(e, q, userId) ==
  /\ userId # Absent => e.userId = userId
  /\ q.action # Absent => e.action = q.action
  /\ q.entityType # Absent => e.entityType = q.entityType
  /\ (q.startDate # NullDate \/ q.endDate # NullDate) =>
       /\ q.startDate # NullDate => e.createdAt >= q.startDate
       /\ q.endDate # NullDate => e.createdAt <= q.endDate

\* the countQuery the routes build from the request for countDocuments
CountQuery(e, q, userId) ==
  /\ userId # Absent => e.userId = userId
  /\ q.action # Absent => e.action = q.action
  /\ q.entityType # Absent => e.entityType = q.entityType
  /\ (q.startDate # NullDate \/ q.endDate # NullDate) =>
       /\ q.startDate # NullDate => e.createdAt >= q.startDate
       /\ q.endDate # NullDate => e.createdAt <= q.endDate

\* sort({createdAt: -1}): the orders a sort can return (entries of equal
\* createdAt come in any order)
NewestFirst(found) ==
  {f \in [1..Cardinality(found) -> found] :
     /\ \A i, j \in 1..Cardinality(found) : i # j => f[i] # f[j]
     /\ \A i, j \in 1..Cardinality(found) :
          i < j => f[i].createdAt >= f[j].createdAt}

\* .skip(skip).limit(limit): a limit of 0 is no limit
SkipLimit(sorted, skip, limit) ==
  LET upto == IF limit = 0 THEN Len(sorted)
              ELSE IF skip + limit < Len(sorted) THEN skip + limit
              ELSE Len(sorted)
  IN [i \in 1..(IF upto > skip THEN upto - skip ELSE 0) |->
        sorted[skip + i]]

\* GET /api/activity-logs (admin only) and GET /api/activity-logs/my-activity
ListLogs(actor, route, q) ==
  IF route = "/" /\ ~authorize(actor, {"admin"})
  THEN Reject("listLogs", actor, 403, 0)
  ELSE LET userId == IF route = "/" THEN q.userId ELSE actor
           skip == (q.page - 1) * q.limit
           found == {e \in activityLogs : LogQuery(e, q, userId)}
       IN IF skip < 0
          THEN \* the server refuses a negative skip
               Reject("listLogs", actor, 500, 0)
          ELSE \E sorted \in NewestFirst(found) :
                 /\ last' = [Req("listLogs", actor, 200, 0, <<>>)
                               EXCEPT !.query = [q EXCEPT !.userId = userId],
                                      !.page = SkipLimit(sorted, skip,
                                                         q.limit),
                                      !.count = Cardinality(
                                        {e \in activityLogs :
                                           CountQuery(e, q, userId)})]
                 /\ UNCHANGED <<projects, pending, tasks, notifications, nextNotifId, now,
                                logStore, saveFails>>

----------------------------------------------------------------------------
(* GET /api/notifications and GET /api/notifications/unread-count *)

\* router.get("/"): the query is { recipient: req.user._id }, isRead: false
\* when unreadOnly is "true", the type when one is given; the response is
\* the page of the found notifications, newest first (a notification with
\* a greater id was created later), the total and the unread count
ListNotifications(actor, q) ==
  LET skip == (q.page - 1) * q.limit
      found == {n \in notifications :
                  /\ n.recipient = actor
                  /\ (q.unreadOnly => ~n.isRead)
                  /\ (q.type # Absent => n.type = q.type)}
  IN /\ last' = [Req("listNotifs", actor, 200, 0, <<>>)
                   EXCEPT !.page = SkipLimit(Descending({n.id : n \in found}),
                                             skip, q.limit),
                          !.total = Cardinality(found),
                          !.count = Cardinality(
                            {n \in notifications : /\ n.recipient = actor
                                                    /\ ~n.isRead})]
     /\ UNCHANGED <<tasks, notifications, nextNotifId, now, logStore,
                    saveFails, projects, pending>>

\* router.get("/unread-count"): countDocuments({ recipient, isRead: false })
UnreadCount(actor) ==
  /\ last' = [Req("unreadCount", actor, 200, 0, <<>>)
                EXCEPT !.count = Cardinality(
                  {n \in notifications : /\ n.recipient = actor
                                          /\ ~n.isRead})]
  /\ UNCHANGED <<tasks, notifications, nextNotifId, now, logStore,
                 saveFails, projects, pending>>

----------------------------------------------------------------------------
(* The project routes *)

\* POST /api/projects: the owner is the owner of the body or the requesting
\* user; the new document gets an id no project had
CreateProject(actor, hasTitle, owner) ==
  IF ~authorize(actor, {"admin", "manager"})
  THEN Reject("createProject", actor, 403, 0)
  ELSE IF ~hasTitle
  THEN Reject("createProject", actor, 400, 0)
  ELSE \E pid \in ProjectIds :
         /\ projects[pid].state = "none"
         /\ \A q \in ProjectIds : q < pid => projects[q].state # "none"
         /\ projects' = [projects EXCEPT ![pid] =
              [state |-> "stored",
               owner |-> IF owner # Absent THEN owner ELSE actor]]
         /\ Log(<<logProjectActivity(Oid(actor), "project_created", pid)>>)
         /\ last' = Req("createProject", actor, 201, 0, <<>>)
         /\ UNCHANGED <<tasks, notifications, nextNotifId, now, saveFails,
                        pending>>

\* the error response of DELETE /api/projects/:id, 0 when there is none:
\* Project.findById, canDelete, "Check if project has tasks" with
\* Task.countDocuments({project_id})
DeleteProjectRefusal(actor, pid) ==
  IF ~(pid \in ProjectIds /\ projects[pid].state = "stored") THEN 404
  ELSE IF ~(\/ Role(actor) = "admin"
            \/ ToString(Oid(projects[pid].owner)) = ToString(Oid(actor)))
  THEN 403
  ELSE IF Cardinality({t \in TaskIds : /\ tasks[t].exists
                                      /\ tasks[t].project_id = pid}) > 0
  THEN 400
  ELSE 0

----------------------------------------------------------------------------
(* Requests between two awaits: a handler runs up to an await of a store   *)
(* call, other requests run, and the handler resumes.  Begin... is the     *)
(* handler up to its last read, Finish... its write and what follows it.   *)

\* the slot a new request takes: the first that holds no request
FreeSlot(s) ==
  /\ pending[s].op = "idle"
  /\ \A q \in Slots : q < s => pending[q].op # "idle"

\* a pending request takes the slot
Hold(s, request) ==
  /\ pending' = [pending EXCEPT ![s] = request]
  /\ UNCHANGED <<tasks, notifications, nextNotifId, now, last, logStore,
                 saveFails, projects>>

\* DELETE /api/projects/:id up to the count of the project's tasks
BeginDeleteProject(s, actor, pid) ==
  /\ FreeSlot(s)
  /\ IF DeleteProjectRefusal(actor, pid) # 0
     THEN Reject("deleteProject", actor, DeleteProjectRefusal(actor, pid),
                 0)
     ELSE Hold(s, [NoPending EXCEPT !.op = "deleteProject",
                                    !.actor = actor, !.pid = pid])

\* ... and its Project.findByIdAndDelete(id)
FinishDeleteProject(s) ==
  /\ pending[s].op = "deleteProject"
  /\ projects' =
       [p \in ProjectIds |->
          IF p = pending[s].pid /\ projects[p].state = "stored"
          THEN [projects[p] EXCEPT !.state = "deleted"] ELSE projects[p]]
  /\ last' = Req("deleteProject", pending[s].actor, 200, 0, <<>>)
  /\ pending' = [pending EXCEPT ![s] = NoPending]
  /\ UNCHANGED <<tasks, notifications, nextNotifId, now, logStore,
                 saveFails>>

\* POST /api/tasks up to task.save(): the new document is built
BeginCreate(s, actor, body) ==
  /\ FreeSlot(s)
  /\ IF CreateRefusal(actor, body) # 0
     THEN CreateTask(actor, body)
     ELSE Hold(s, [NoPending EXCEPT
                     !.op = "createTask", !.actor = actor,
                     !.loaded =
                       [exists |-> TRUE, title |-> "t",
                        assignee_id |-> body.assignee_id,
                        project_id |-> body.project_id,
                        createdBy |-> actor, status |-> "todo",
                        completedAt |-> NullDate, comments |-> <<>>,
                        version |-> 0]])

\* ... task.save(), the notification and the log entry
FinishCreate(s) ==
  LET p == pending[s]
      body == [hasTitle |-> TRUE, assignee_id |-> p.loaded.assignee_id,
               project_id |-> p.loaded.project_id]
  IN /\ p.op = "createTask"
     /\ \E t \in TaskIds :
          LET results == TaskResults(CreateCalls(p.actor, body), t)
          IN /\ FreeTask(t)
             /\ tasks' = [tasks EXCEPT ![t] = p.loaded]
             /\ Notify(results)
             /\ Log(<<logTaskActivity(Oid(p.actor), CreateLogAction(body),
                                      t)>>)
             /\ last' = [Req("createTask", p.actor, 201, t, results)
                           EXCEPT !.pre = NoTask]
     /\ pending' = [pending EXCEPT ![s] = NoPending]
     /\ UNCHANGED <<now, saveFails, projects>>

\* findByIdAndUpdate(taskId, updates): the paths of the update document
\* are set on the document as stored now, the other paths are kept
ApplyUpdates(doc, updates) ==
  [doc EXCEPT
     !.status = IF updates.status = Absent THEN @ ELSE updates.status,
     !.assignee_id = IF updates.assignee_id = Absent THEN @
                     ELSE updates.assignee_id,
     !.project_id = IF updates.project_id = NoProjectId THEN @
                    ELSE updates.project_id,
     !.completedAt = IF updates.setsCompletedAt THEN updates.completedAt
                     ELSE @]

\* PUT /api/tasks/:id up to findByIdAndUpdate: the task is found, the
\* project and the assignee verified, the update document built from the
\* body and "Handle task completion"
BeginPut(s, actor, tid, body) ==
  /\ FreeSlot(s)
  /\ IF PutRefusal(actor, tid, body) # 0
     THEN PutTask(actor, tid, body)
     ELSE Hold(s, [NoPending EXCEPT
                     !.op = "putTask", !.actor = actor, !.tid = tid,
                     !.loaded = tasks[tid],
                     !.updates =
                       [status |-> body.status,
                        assignee_id |-> body.assignee_id,
                        project_id |-> body.project_id,
                        setsCompletedAt |->
                          ~(/\ body.status = "completed"
                            /\ tasks[tid].status = "completed"),
                        completedAt |->
                          UpdatedCompletedAt(body.status, tasks[tid],
                                             now)]])

\* ... findByIdAndUpdate, the notification and the log entry
FinishPut(s) ==
  LET p == pending[s]
      body == [status |-> p.updates.status,
               assignee_id |-> p.updates.assignee_id,
               project_id |-> p.updates.project_id]
      updated == ApplyUpdates(tasks[p.tid], p.updates)
      results == TaskResults(PutCalls(p.actor, body, p.loaded, updated),
                             p.tid)
  IN /\ p.op = "putTask"
     /\ tasks' = [tasks EXCEPT ![p.tid] = updated]
     /\ Notify(results)
     /\ Log(<<logTaskActivity(Oid(p.actor), PutLogAction(body, p.loaded),
                              p.tid)>>)
     /\ last' = [Req("putTask", p.actor, 200, p.tid, results)
                   EXCEPT !.pre = p.loaded]
     /\ pending' = [pending EXCEPT ![s] = NoPending]
     /\ UNCHANGED <<now, saveFails, projects>>

\* PATCH /api/tasks/:id/status up to findByIdAndUpdate: the status is
\* validated, the task found, the update document built: { status }, and
\* completedAt in the two branches of "Update completion timestamp"
BeginPatch(s, actor, tid, status) ==
  /\ FreeSlot(s)
  /\ IF status \notin Statuses \/ ~tasks[tid].exists
     THEN PatchStatus(actor, tid, status)
     ELSE Hold(s, [NoPending EXCEPT
                     !.op = "patchStatus", !.actor = actor, !.tid = tid,
                     !.loaded = tasks[tid],
                     !.updates =
                       [status |-> status, assignee_id |-> Absent,
                        project_id |-> NoProjectId,
                        setsCompletedAt |->
                          ~(/\ status = "completed"
                            /\ tasks[tid].status = "completed"),
                        completedAt |->
                          PatchCompletedAt(status, tasks[tid], now)]])

\* ... findByIdAndUpdate and the notification
FinishPatch(s) ==
  LET p == pending[s]
      updated == ApplyUpdates(tasks[p.tid], p.updates)
      results == TaskResults(PatchCalls(p.actor, p.updates.status, p.loaded),
                             p.tid)
  IN /\ p.op = "patchStatus"
     /\ tasks' = [tasks EXCEPT ![p.tid] = updated]
     /\ Notify(results)
     /\ last' = [Req("patchStatus", p.actor, 200, p.tid, results)
                   EXCEPT !.pre = p.loaded]
     /\ pending' = [pending EXCEPT ![s] = NoPending]
     /\ UNCHANGED <<now, logStore, saveFails, projects>>

\* the comment list of the document a pending comment request holds in
\* memory: the list it loaded with its push, its assignment or its pull
ProducedComments(p) ==
  CASE p.op = "addComment" -> Append(p.loaded.comments, p.comment)
    [] p.op = "editComment" ->
         [i \in 1..Len(p.loaded.comments) |->
            IF p.loaded.comments[i].id = p.comment.id
            THEN [p.loaded.comments[i] EXCEPT
                    !.text = p.comment.text,
                    !.timestamp = p.comment.timestamp]
            ELSE p.loaded.comments[i]]
    [] p.op = "deleteComment" -> Pull(p.loaded.comments, p.comment.id)
    [] OTHER -> p.loaded.comments

\* POST /api/tasks/:id/comments up to task.save(): the task is found and
\* the new comment pushed on the loaded document, with an _id that no
\* comment of the task and no comment being added has
BeginAddComment(s, actor, tid, text) ==
  LET used == {tasks[tid].comments[i].id : i \in 1..Len(tasks[tid].comments)}
                \cup {pending[q].comment.id :
                        q \in {r \in Slots : /\ pending[r].op = "addComment"
                                              /\ pending[r].tid = tid}}
  IN /\ FreeSlot(s)
     /\ IF Trim(text) = "" \/ ~tasks[tid].exists
        THEN AddComment(actor, tid, text)
        ELSE /\ CommentIds \ used # {}
             /\ Hold(s, [NoPending EXCEPT
                           !.op = "addComment", !.actor = actor,
                           !.tid = tid, !.loaded = tasks[tid],
                           !.comment =
                             [id |-> CHOOSE c \in CommentIds \ used :
                                       \A d \in CommentIds \ used : c <= d,
                              author |-> actor, text |-> Trim(text),
                              timestamp |-> now]])

\* ... task.save(): the push is sent as $push with an increment of the
\* version, with no condition on it; then the notifications, from the
\* document in memory, and the log entry
FinishAddComment(s) ==
  LET p == pending[s]
      inMemory == [p.loaded EXCEPT !.comments = ProducedComments(p)]
      results == CommentResults(NotificationRecipients(inMemory, p.actor),
                                p.actor, p.tid)
  IN /\ p.op = "addComment"
     /\ tasks[p.tid].version < MaxVersion
     /\ tasks' = [tasks EXCEPT ![p.tid] =
                    [@ EXCEPT !.comments = Append(@, p.comment),
                              !.version = @ + 1]]
     /\ Notify(results)
     /\ Log(<<logCommentActivity(Oid(p.actor), "task_commented", p.tid,
                                 p.comment.id)>>)
     /\ last' = [Req("addComment", p.actor, 201, p.tid, results)
                   EXCEPT !.pre = p.loaded, !.cid = p.comment.id]
     /\ pending' = [pending EXCEPT ![s] = NoPending]
     /\ UNCHANGED <<now, saveFails, projects>>

\* PUT /api/tasks/:taskId/comments/:commentId up to task.save()
BeginEditComment(s, actor, tid, cid, text) ==
  /\ FreeSlot(s)
  /\ IF \/ Trim(text) = ""
        \/ ~tasks[tid].exists
        \/ CommentAt(tasks[tid].comments, cid) = {}
        \/ \E i \in CommentAt(tasks[tid].comments, cid) :
             ~MayChangeComment(actor, tasks[tid].comments[i])
     THEN EditComment(actor, tid, cid, text)
     ELSE Hold(s, [NoPending EXCEPT
                     !.op = "editComment", !.actor = actor, !.tid = tid,
                     !.loaded = tasks[tid],
                     !.comment = [id |-> cid, author |-> Absent,
                                  text |-> Trim(text), timestamp |-> now]])

\* ... task.save(): the assignment to a subdocument is sent as $set on
\* comments.<index>, on the condition that the version is the one loaded;
\* when it is not, save throws a VersionError and the catch answers 500
FinishEditComment(s) ==
  LET p == pending[s]
      i == CHOOSE j \in CommentAt(p.loaded.comments, p.comment.id) : TRUE
  IN /\ p.op = "editComment"
     /\ IF tasks[p.tid].version # p.loaded.version
        THEN /\ last' = Req("rejected", Absent, 500, 0, <<>>)
             /\ UNCHANGED tasks
        ELSE /\ tasks' = [tasks EXCEPT ![p.tid].comments[i] =
                           [@ EXCEPT !.text = p.comment.text,
                                     !.timestamp = p.comment.timestamp]]
             /\ last' = [Req("editComment", p.actor, 200, p.tid, <<>>)
                           EXCEPT !.pre = p.loaded, !.cid = p.comment.id]
     /\ pending' = [pending EXCEPT ![s] = NoPending]
     /\ UNCHANGED <<notifications, nextNotifId, now, logStore, saveFails,
                    projects>>

\* DELETE /api/tasks/:taskId/comments/:commentId up to task.save()
BeginDeleteComment(s, actor, tid, cid) ==
  /\ FreeSlot(s)
  /\ IF \/ ~tasks[tid].exists
        \/ CommentAt(tasks[tid].comments, cid) = {}
        \/ \E i \in CommentAt(tasks[tid].comments, cid) :
             ~MayChangeComment(actor, tasks[tid].comments[i])
     THEN DeleteComment(actor, tid, cid)
     ELSE Hold(s, [NoPending EXCEPT
                     !.op = "deleteComment", !.actor = actor, !.tid = tid,
                     !.loaded = tasks[tid],
                     !.comment = [id |-> cid, author |-> Absent,
                                  text |-> "", timestamp |-> NullDate]])

\* ... task.save(): the pull is sent as $pull by _id with an increment of
\* the version, with no condition on it
FinishDeleteComment(s) ==
  LET p == pending[s]
  IN /\ p.op = "deleteComment"
     /\ tasks[p.tid].version < MaxVersion
     /\ tasks' = [tasks EXCEPT ![p.tid] =
                    [@ EXCEPT !.comments = Pull(@, p.comment.id),
                              !.version = @ + 1]]
     /\ last' = [Req("deleteComment", p.actor, 200, p.tid, <<>>)
                   EXCEPT !.pre = p.loaded, !.cid = p.comment.id]
     /\ pending' = [pending EXCEPT ![s] = NoPending]
     /\ UNCHANGED <<notifications, nextNotifId, now, logStore, saveFails,
                    projects>>

\* PATCH /api/notifications/:id/read up to the save() of markAsRead:
\* findOne has returned the document, and as it is unread isRead and
\* readAt are set on it
BeginMarkRead(s, actor, nid) ==
  /\ FreeSlot(s)
  /\ IF \A n \in FindOwn(actor, nid) : n.isRead
     THEN MarkRead(actor, nid)
     ELSE Hold(s, [NoPending EXCEPT
                     !.op = "markRead", !.actor = actor, !.nid = nid,
                     !.readAt = now])

\* ... this.save(): the two modified paths are set on the stored document
FinishMarkRead(s) ==
  LET p == pending[s]
  IN /\ p.op = "markRead"
     /\ IF \E n \in notifications : n.id = p.nid
        THEN /\ notifications' =
                  {IF n.id = p.nid
                   THEN [n EXCEPT !.isRead = TRUE, !.readAt = p.readAt]
                   ELSE n : n \in notifications}
             /\ last' = [Req("markRead", p.actor, 200, 0, <<>>)
                           EXCEPT !.nid = p.nid]
        ELSE /\ last' = Req("rejected", Absent, 500, 0, <<>>)
             /\ UNCHANGED notifications
     /\ pending' = [pending EXCEPT ![s] = NoPending]
     /\ UNCHANGED <<tasks, nextNotifId, now, logStore, saveFails, projects>>

----------------------------------------------------------------------------
(* Direct calls of the notification helpers *)

\* the forms a recipient argument can take
RecipientValues ==
  {Oid(u) : u \in Users} \cup {Hex(u) : u \in Users}
    \cup {Doc(u) : u \in Users} \cup {Inspect(u) : u \in Users}

\* a call of createTaskNotification with the arguments drawn at start
CallTaskNotification ==
  LET c == last.call
      results == <<createTaskNotification(c.recipient, c.sender, last.tid,
                                          c.type)>>
  IN /\ last.op = "pendingTask"
     /\ Notify(results)
     /\ last' = [last EXCEPT !.op = "callTask", !.results = results]
     /\ UNCHANGED <<projects, pending, tasks, now, logStore, saveFails>>

\* a call of createCommentNotification with the arguments drawn at start;
\* the message is the template
\* `New comment on "${task.title}": "${truncatedText}"` (the literal parts
\* of the template are one element each)
CallCommentNotification ==
  LET c == last.call
      results == <<createCommentNotification(c.recipient, c.sender,
                                             last.tid)>>
  IN /\ last.op = "pendingComment"
     /\ Notify(results)
     /\ last' = [last EXCEPT !.op = "callComment", !.results = results,
                             !.message =
                               IF results[1].ok
                               THEN <<"New comment on ", "\"">>
                                      \o last.title \o <<"\"", ": ", "\"">>
                                      \o TruncatedText(last.text)
                                      \o <<"\"">>
                               ELSE <<>>]
     /\ UNCHANGED <<projects, pending, tasks, now, logStore, saveFails>>

----------------------------------------------------------------------------
Init ==
  /\ tasks = [t \in TaskIds |-> NoTask]
  /\ notifications = {}
  /\ nextNotifId = 1
  /\ now = 1
  /\ last = Idle
  /\ activityLogs = {}
  /\ nextLogId = 1
  /\ saveFails = {}
  /\ projects = [p \in ProjectIds |-> NoProject]
  /\ pending = [s \in Slots |-> NoPending]

\* the writes to a collection start or stop failing
Outage(failing) ==
  /\ saveFails' = failing
  /\ last' = Req("outage", Absent, 0, 0, <<>>)
  /\ UNCHANGED <<projects, pending, tasks, notifications, nextNotifId, now, logStore>>

\* time passes between requests
Tick ==
  /\ now < MaxClock
  /\ now' = now + 1
  /\ last' = Req("tick", Absent, 0, 0, <<>>)
  /\ UNCHANGED <<projects, pending, tasks, notifications, nextNotifId, logStore, saveFails>>

\* the requests sent to POST / and PUT /:id: every body from an authorized
\* user, one body from a user the authorize middleware turns away
CreateRequests ==
  {r \in [actor : Users, body : CreateBodies] :
     authorize(r.actor, {"admin", "manager"}) \/ ~r.body.hasTitle}

UpdateRequests ==
  {r \in [actor : Users, body : UpdateBodies] :
     authorize(r.actor, {"admin", "manager"}) \/ r.body.status = "bogus"}

\* the task routes, while fewer than MaxCreated tasks are stored
NextTask ==
  \/ \E r \in CreateRequests :
        /\ Cardinality({t \in TaskIds : tasks[t].exists}) < MaxCreated
        /\ CreateTask(r.actor, r.body)
  \/ \E r \in UpdateRequests, t \in TaskIds : PutTask(r.actor, t, r.body)
  \/ \E u \in Users, t \in TaskIds, s \in Statuses \cup {"bogus"} :
        PatchStatus(u, t, s)

SpecTask == Init /\ [][NextTask]_vars

\* task creation and the comment route
NextComment ==
  \/ \E r \in CreateRequests :
        /\ Cardinality({t \in TaskIds : tasks[t].exists}) < MaxCreated
        /\ CreateTask(r.actor, r.body)
  \/ \E u \in Users, t \in TaskIds, s \in Statuses \cup {"bogus"} :
        PatchStatus(u, t, s)
  \/ \E u \in Users, t \in TaskIds, x \in BodyTexts : AddComment(u, t, x)

SpecComment == Init /\ [][NextComment]_vars

\* task creation and the notification routes, on the notifications that
\* task creation stores, and the GET routes of the tasks router, by path
NextNotif ==
  \/ \E u \in Users, t \in TaskIds : GetTaskRequest(u, IdSegment(t))
  \/ \E u \in Users : GetTaskRequest(u, MyTasksSegment)
  \/ Tick
  \/ \E r \in CreateRequests :
        /\ Cardinality({t \in TaskIds : tasks[t].exists}) < MaxCreated
        /\ CreateTask(r.actor, r.body)
  \/ \E u \in Users, n \in NotifIds : MarkRead(u, n)
  \/ \E u \in Users, ids \in SUBSET NotifIds : MarkAllRead(u, ids)
  \/ \E u \in Users, n \in NotifIds : DeleteRequest(u, IdSegment(n))
  \/ \E u \in Users : DeleteRequest(u, ClearAllSegment)

SpecNotif == Init /\ [][NextNotif]_vars

\* the tasks the task routes can leave in the store: any assignee, a
\* creator that passed authorize, any status; completedAt is null unless
\* the status is completed (and can be null even then)
StoredTasks ==
  {t \in [exists : {TRUE}, title : {"t"}, assignee_id : Users,
          project_id : {NoProjectId},
          createdBy : {u \in Users : authorize(u, {"admin", "manager"})},
          status : Statuses, completedAt : {NullDate, 1},
          comments : {<<>>}, version : {0}] :
     t.status # "completed" => t.completedAt = NullDate}

\* one PUT /api/tasks/:id on any store of at most MaxCreated such tasks
InitPut ==
  /\ tasks \in [TaskIds -> StoredTasks \cup {NoTask}]
  /\ \A t \in TaskIds : tasks[t].exists =>
        \A s \in TaskIds : s < t => tasks[s].exists
  /\ \A t \in TaskIds : tasks[t].exists => t <= MaxCreated
  /\ notifications = {}
  /\ nextNotifId = 1
  /\ now = 1
  /\ last = Idle
  /\ activityLogs = {}
  /\ nextLogId = 1
  /\ saveFails = {}
  /\ projects = [p \in ProjectIds |-> NoProject]
  /\ pending = [s \in Slots |-> NoPending]

NextPut ==
  /\ last.op = "init"
  /\ \E r \in UpdateRequests, t \in TaskIds : PutTask(r.actor, t, r.body)

SpecPut == InitPut /\ [][NextPut]_vars

\* the helpers called directly on an empty store: the arguments are drawn
\* at start, with every form of recipient and every event type, and for
\* createCommentNotification a task title and a comment text of any length
\* up to MaxText (letters in turn, so that no two positions at a distance
\* of 1 or 2 hold the same character)
InitUnit ==
  /\ tasks = [t \in TaskIds |-> NoTask]
  /\ notifications = {}
  /\ nextNotifId = 1
  /\ now = 1
  /\ \/ \E r \in RecipientValues, u \in Users, t \in TaskIds,
           ty \in NotificationTypes \cup {"bogus"} :
           last = [Idle EXCEPT !.op = "pendingTask", !.actor = u, !.tid = t,
                     !.call = [recipient |-> r, sender |-> Oid(u),
                               type |-> ty]]
     \/ \E r \in RecipientValues, u \in Users, t \in TaskIds,
           n \in 0..MaxText, k \in 0..1, ti \in {<<"T">>, <<"T", "2">>} :
           last = [Idle EXCEPT !.op = "pendingComment", !.actor = u,
                     !.tid = t,
                     !.call = [recipient |-> r, sender |-> Oid(u),
                               type |-> "comment_added"],
                     !.title = ti,
                     !.text = [i \in 1..n |->
                                 <<"a", "b", "c">>[((i + k) % 3) + 1]]]
  /\ activityLogs = {}
  /\ nextLogId = 1
  /\ saveFails = {}
  /\ projects = [p \in ProjectIds |-> NoProject]
  /\ pending = [s \in Slots |-> NoPending]

NextUnit ==
  \/ CallTaskNotification
  \/ CallCommentNotification

SpecUnit == InitUnit /\ [][NextUnit]_vars

\* no request has been made on the store drawn at start
Once == last.op = "init"

\* one request that writes a task or adds a comment
NextMutation ==
  \/ \E r \in CreateRequests : Once /\ CreateTask(r.actor, r.body)
  \/ \E r \in UpdateRequests, t \in TaskIds :
        Once /\ PutTask(r.actor, t, r.body)
  \/ \E u \in Users, t \in TaskIds, x \in BodyTexts :
        Once /\ AddComment(u, t, x)

\* ... on any store of tasks
SpecMutation == InitPut /\ [][NextMutation]_vars

\* ... while the writes to any of the two side collections, and those to
\* the tasks the routes write first, fail or not
InitFault ==
  /\ tasks \in [TaskIds -> StoredTasks \cup {NoTask}]
  /\ \A t \in TaskIds : tasks[t].exists =>
        \A s \in TaskIds : s < t => tasks[s].exists
  /\ \A t \in TaskIds : tasks[t].exists => t <= MaxCreated
  /\ notifications = {}
  /\ nextNotifId = 1
  /\ now = 1
  /\ last = Idle
  /\ activityLogs = {}
  /\ nextLogId = 1
  /\ saveFails \in SUBSET (Collections \cup {"Task"})
  /\ projects = [p \in ProjectIds |-> NoProject]
  /\ pending = [s \in Slots |-> NoPending]

SpecFault == InitFault /\ [][NextMutation]_vars

\* the comment lists requests leave on a task: any authors, ids in the
\* order of creation
StoredComments ==
  UNION {[1..k -> [id : CommentIds, author : Users, text : {"a"},
                   timestamp : {1}]] : k \in 0..MaxComments}

\* task 1, created by u1 for u1, with such a list; the notifications of the
\* comments deleted by their recipient and the log cleaned up since
InitCommented ==
  /\ \E cs \in StoredComments :
       /\ \A i \in 1..Len(cs) : cs[i].id = i
       /\ tasks = [t \in TaskIds |->
                     IF t = 1
                     THEN [exists |-> TRUE, title |-> "t",
                           assignee_id |-> "u1", project_id |-> NoProjectId,
                           createdBy |-> "u1", status |-> "todo",
                           completedAt |-> NullDate, comments |-> cs,
                           version |-> Len(cs)]
                     ELSE NoTask]
  /\ notifications = {}
  /\ nextNotifId = 1
  /\ now = MaxClock
  /\ last = Idle
  /\ activityLogs = {}
  /\ nextLogId = 1
  /\ saveFails = {}
  /\ projects = [p \in ProjectIds |-> NoProject]
  /\ pending = [s \in Slots |-> NoPending]

\* one request of the comment edit and delete routes
NextCommentEdit ==
  \/ \E u \in Users, t \in TaskIds, c \in CommentIds, x \in BodyTexts :
        Once /\ EditComment(u, t, c, x)
  \/ \E u \in Users, t \in TaskIds, c \in CommentIds :
        Once /\ DeleteComment(u, t, c)

SpecCommentEdit == InitCommented /\ [][NextCommentEdit]_vars

\* a store with a history: task 1, created by u1 for u1, and the log of
\* the requests made on it since. Every entry after the first is one that
\* requests can add any number of times (u1 commenting, the comment being
\* deleted before the next; u1 or u2 sending a PUT that changes neither
\* assignee nor status, the notification being deleted by its recipient).
LogShapes ==
  {[userId |-> "u1", action |-> "task_commented", entityType |-> "comment",
    entityId |-> 1, relatedEntityId |-> 1],
   [userId |-> "u1", action |-> "task_updated", entityType |-> "task",
    entityId |-> 1, relatedEntityId |-> 0],
   [userId |-> "u2", action |-> "task_updated", entityType |-> "task",
    entityId |-> 1, relatedEntityId |-> 0]}

CreationShape ==
  [userId |-> "u1", action |-> "task_assigned", entityType |-> "task",
   entityId |-> 1, relatedEntityId |-> 0]

\* the logs of such histories, as sequences of <<shape, createdAt>>
LogHistories ==
  {h \in UNION {[1..k -> (LogShapes \cup {CreationShape}) \X (1..MaxClock)] :
                  k \in 1..MaxLogs} :
     /\ h[1][1] = CreationShape
     /\ \A i \in 2..Len(h) : h[i][1] # CreationShape
     /\ \A i \in 2..Len(h) : h[i - 1][2] <= h[i][2]}

HistoryLogs(h) ==
  {[id |-> i, userId |-> h[i][1].userId, action |-> h[i][1].action,
    entityType |-> h[i][1].entityType, entityId |-> h[i][1].entityId,
    relatedEntityId |-> h[i][1].relatedEntityId, createdAt |-> h[i][2]] :
     i \in 1..Len(h)}

\* the task such a history leaves: the comment of the last task_commented
\* entry is still on it
HistoryTask(h) ==
  LET commented == {i \in 1..Len(h) : h[i][1].action = "task_commented"}
  IN [exists |-> TRUE, title |-> "t", assignee_id |-> "u1",
      project_id |-> NoProjectId, createdBy |-> "u1",
      status |-> "todo", completedAt |-> NullDate,
      comments |->
        IF commented = {} THEN <<>>
        ELSE LET i == CHOOSE j \in commented : \A k \in commented : k <= j
             IN <<[id |-> 1, author |-> "u1", text |-> "a",
                   timestamp |-> h[i][2]]>>,
      version |-> IF commented = {} THEN 0 ELSE 1]

\* the empty store, or a store with a history
InitLogs ==
  /\ notifications = {}
  /\ nextNotifId = 1
  /\ saveFails = {}
  /\ projects = [p \in ProjectIds |-> NoProject]
  /\ pending = [s \in Slots |-> NoPending]
  /\ last = Idle
  /\ \/ /\ tasks = [t \in TaskIds |-> NoTask]
        /\ activityLogs = {}
        /\ nextLogId = 1
        /\ now = 1
     \/ \E h \in LogHistories :
          /\ tasks = [t \in TaskIds |-> IF t = 1 THEN HistoryTask(h)
                                        ELSE NoTask]
          /\ activityLogs = HistoryLogs(h)
          /\ nextLogId = Len(h) + 1
          /\ now \in h[Len(h)][2]..MaxClock

\* the daysToKeep values of cleanup requests
DaysValues == {NoDays, NotANumber} \cup {Days(h) : h \in {-2, 0, 1, 2, 3}}

\* one request of any route that writes, on such a store
NextLogs ==
  \/ \E r \in CreateRequests : Once /\ CreateTask(r.actor, r.body)
  \/ \E r \in UpdateRequests, t \in TaskIds :
        Once /\ PutTask(r.actor, t, r.body)
  \/ \E u \in Users, t \in TaskIds, x \in Statuses \cup {"bogus"} :
        Once /\ PatchStatus(u, t, x)
  \/ \E u \in Users, t \in TaskIds, x \in BodyTexts :
        Once /\ AddComment(u, t, x)
  \/ \E u \in Users, t \in TaskIds, c \in CommentIds, x \in BodyTexts :
        Once /\ EditComment(u, t, c, x)
  \/ \E u \in Users, t \in TaskIds, c \in CommentIds :
        Once /\ DeleteComment(u, t, c)
  \/ \E u \in Users, ids \in SUBSET NotifIds :
        Once /\ MarkAllRead(u, ids)
  \/ \E u \in Users, d \in DaysValues : Once /\ Cleanup(u, d)

SpecLogs == InitLogs /\ [][NextLogs]_vars

\* the queries of listing requests
LogQueries ==
  [page : {1, 2}, limit : {1, 2}, action : {Absent, "task_updated"},
   entityType : {Absent, "comment"}, userId : {Absent, "u2"},
   startDate : {NullDate, 2}, endDate : {NullDate, 1}]
    \cup {[NoQuery EXCEPT !.limit = 0], [NoQuery EXCEPT !.page = 0]}

\* one listing request on such a store: the admin's on GET / with any
\* query, everyone's on GET /my-activity, and one the authorize middleware
\* turns away
NextList ==
  \/ \E q \in LogQueries : Once /\ ListLogs("u1", "/", q)
  \/ \E u \in Users, q \in LogQueries :
        Once /\ q.userId = Absent /\ ListLogs(u, "/my-activity", q)
  \/ Once /\ ListLogs("u2", "/", NoQuery)

\* listing does not read the clock
InitList == InitLogs /\ now = MaxClock

SpecList == InitList /\ [][NextList]_vars

\* task 1 is a stored task whose completedAt is set exactly when its
\* status is completed
InitRace ==
  /\ \E t \in StoredTasks :
        /\ (t.completedAt # NullDate) <=> (t.status = "completed")
        /\ tasks = [i \in TaskIds |-> IF i = 1 THEN t ELSE NoTask]
  /\ notifications = {}
  /\ nextNotifId = 1
  /\ now = 1
  /\ last = Idle
  /\ activityLogs = {}
  /\ nextLogId = 1
  /\ saveFails = {}
  /\ projects = [p \in ProjectIds |-> NoProject]
  /\ pending = [s \in Slots |-> NoPending]

\* up to MaxRequests requests that write a task's status (the PUT bodies
\* hold a status and nothing else): they all start before the first of them
\* ends, and end in any order
NextRace ==
  \/ \E s \in Slots, u \in Users, t \in TaskIds,
        x \in Statuses \cup {"bogus"} : Once /\ BeginPatch(s, u, t, x)
  \/ \E s \in Slots : FinishPatch(s)
  \/ \E s \in Slots, u \in Users, t \in TaskIds, x \in Statuses :
        Once /\ BeginPut(s, u, t, [status |-> x, assignee_id |-> Absent,
                                   project_id |-> NoProjectId])
  \/ \E s \in Slots : FinishPut(s)

SpecRace == InitRace /\ [][NextRace]_vars

\* up to MaxRequests comment requests: they all load the task before the
\* first of them saves, and save in any order
NextCommentRace ==
  \/ \E s \in Slots, u \in Users, t \in TaskIds, x \in BodyTexts :
        Once /\ BeginAddComment(s, u, t, x)
  \/ \E s \in Slots : FinishAddComment(s)
  \/ \E s \in Slots, u \in Users, t \in TaskIds, c \in CommentIds,
        x \in BodyTexts : Once /\ BeginEditComment(s, u, t, c, x)
  \/ \E s \in Slots : FinishEditComment(s)
  \/ \E s \in Slots, u \in Users, t \in TaskIds, c \in CommentIds :
        Once /\ BeginDeleteComment(s, u, t, c)
  \/ \E s \in Slots : FinishDeleteComment(s)

SpecCommentRace == InitCommented /\ [][NextCommentRace]_vars

\* task creation and the two routes that mark notifications as read, any
\* number of PATCH /:id/read requests between findOne and save at once
NextReadRace ==
  \/ Tick
  \/ \E r \in CreateRequests :
        /\ Cardinality({t \in TaskIds : tasks[t].exists}) < MaxCreated
        /\ CreateTask(r.actor, r.body)
  \/ \E s \in Slots, u \in Users, n \in NotifIds : BeginMarkRead(s, u, n)
  \/ \E s \in Slots : FinishMarkRead(s)
  \/ \E u \in Users, ids \in SUBSET NotifIds : MarkAllRead(u, ids)

SpecReadRace == Init /\ [][NextReadRace]_vars

\* a store of the notifications requests leave: any recipient, sent by
\* another user, unread or read, with the ids in the order of creation
InitIsolation ==
  /\ tasks = [t \in TaskIds |-> NoTask]
  /\ notifications \in SUBSET
       {n \in [id : NotifIds, recipient : Users, sender : Users,
               type : {"task_assigned", "task_updated"},
               title : {"New Task Assigned"}, relatedTask : {1},
               isRead : BOOLEAN, readAt : {NullDate, 1}] :
          /\ n.isRead <=> n.readAt # NullDate
          /\ n.sender = (IF n.recipient = "u1" THEN "u2" ELSE "u1")
          /\ n.type = (IF n.id = 1 THEN "task_assigned" ELSE "task_updated")}
  /\ \A n, m \in notifications : n.id = m.id => n = m
  /\ \A n \in notifications : \A i \in NotifIds :
        i < n.id => \E m \in notifications : m.id = i
  /\ nextNotifId = Cardinality(notifications) + 1
  /\ now = MaxClock
  /\ last = Idle
  /\ activityLogs = {}
  /\ nextLogId = 1
  /\ saveFails = {}
  /\ projects = [p \in ProjectIds |-> NoProject]
  /\ pending = [s \in Slots |-> NoPending]

\* one request of a notification route, with any identifiers
NextIsolation ==
  \/ \E u \in Users,
        q \in [page : {1, 2}, limit : {1, 2}, unreadOnly : BOOLEAN,
               type : {Absent, "task_updated"}] :
        Once /\ ListNotifications(u, q)
  \/ \E u \in Users : Once /\ UnreadCount(u)
  \/ \E u \in Users, n \in NotifIds : Once /\ MarkRead(u, n)
  \/ \E u \in Users, ids \in SUBSET NotifIds : Once /\ MarkAllRead(u, ids)
  \/ \E u \in Users, n \in NotifIds :
        Once /\ DeleteRequest(u, IdSegment(n))
  \/ \E u \in Users : Once /\ DeleteRequest(u, ClearAllSegment)

SpecIsolation == InitIsolation /\ [][NextIsolation]_vars

\* any store of stored tasks assigned to u2, without comment or with one
InitPatch ==
  /\ tasks \in [TaskIds ->
                  {[t EXCEPT !.comments = cs, !.version = Len(cs)] :
                     t \in {x \in StoredTasks : x.assignee_id = "u2"},
                     cs \in {<<>>, <<[id |-> 1, author |-> "u1",
                                      text |-> "a", timestamp |-> 1]>>}}
                  \cup {NoTask}]
  /\ \A t \in TaskIds : tasks[t].exists =>
        \A s \in TaskIds : s < t => tasks[s].exists
  /\ notifications = {}
  /\ nextNotifId = 1
  /\ now = MaxClock
  /\ last = Idle
  /\ activityLogs = {}
  /\ nextLogId = 1
  /\ saveFails = {}
  /\ projects = [p \in ProjectIds |-> NoProject]
  /\ pending = [s \in Slots |-> NoPending]

\* one PATCH /api/tasks/:id/status, with a status of the enum, another
\* text or none
NextPatch ==
  /\ Once
  /\ \E u \in Users, t \in TaskIds, x \in Statuses \cup {"bogus", Absent} :
        PatchStatus(u, t, x)

SpecPatch == InitPatch /\ [][NextPatch]_vars

\* the project routes and the task routes that write project_id, any
\* number of their requests between two awaits at once; the bodies of the
\* task requests name the stored project, one that does not exist, or none
NextProject ==
  \/ \E u \in Users, t \in BOOLEAN : CreateProject(u, t, Absent)
  \/ \E s \in Slots, u \in Users, pid \in ProjectIds \cup {GhostProject} :
        BeginDeleteProject(s, u, pid)
  \/ \E s \in Slots : FinishDeleteProject(s)
  \/ \E s \in Slots, u \in Users,
        pid \in ProjectIds \cup {NoProjectId, GhostProject} :
        BeginCreate(s, u, [hasTitle |-> TRUE, assignee_id |-> "u2",
                           project_id |-> pid])
  \/ \E s \in Slots : FinishCreate(s)
  \/ \E s \in Slots, u \in Users, t \in TaskIds,
        pid \in ProjectIds \cup {NoProjectId, GhostProject} :
        BeginPut(s, u, t, [status |-> Absent, assignee_id |-> Absent,
                           project_id |-> pid])
  \/ \E s \in Slots : FinishPut(s)

SpecProject == Init /\ [][NextProject]_vars

Next ==
  \/ Tick
  \/ NextTask
  \/ \E u \in Users, t \in TaskIds, x \in BodyTexts : AddComment(u, t, x)
  \/ \E u \in Users, n \in NotifIds : MarkRead(u, n)
  \/ \E u \in Users, ids \in SUBSET NotifIds : MarkAllRead(u, ids)
  \/ \E u \in Users, n \in NotifIds : DeleteRequest(u, IdSegment(n))
  \/ \E u \in Users : DeleteRequest(u, ClearAllSegment)
  \/ \E u \in Users, t \in TaskIds, c \in CommentIds, x \in BodyTexts :
        EditComment(u, t, c, x)
  \/ \E u \in Users, t \in TaskIds, c \in CommentIds :
        DeleteComment(u, t, c)
  \/ \E u \in Users, d \in DaysValues : Cleanup(u, d)
  \/ \E u \in Users, q \in LogQueries, r \in {"/", "/my-activity"} :
        ListLogs(u, r, q)
  \/ \E f \in SUBSET Collections : Outage(f)
  \/ NextProject
  \/ NextNotif

Spec == Init /\ [][Next]_vars

----------------------------------------------------------------------------
(* Properties *)

\* the notifications the last request created
CreatedNow == {n \in notifications : n.id >= last.firstId}

\* the task the last request addressed, as stored now
Post == tasks[last.tid]

\* C1: a call of createTaskNotification or createCommentNotification whose
\* recipient identifier (ObjectId or hex string) equals the sender
\* identifier creates no Notification and returns null, whatever the event
\* type.
C1_SelfCallCreatesNothing ==
  (/\ last.op \in {"callTask", "callComment"}
   /\ IsIdentifier(last.call.recipient)
   /\ CastObjectId(last.call.recipient) = CastObjectId(last.call.sender))
  => (/\ ~last.results[1].ok
      /\ notifications = {}
      /\ nextNotifId = last.firstId)

C1_Witness ==
  /\ last.op = "callComment"
  /\ last.call.recipient = Hex(last.call.sender.id)
  /\ ~last.results[1].ok
  /\ notifications = {}

\* C2: no stored Notification has its recipient equal to its sender, after
\* any sequence of task creations, PUT updates and PATCH status requests.
C2_NoSelfNotification ==
  \A n \in notifications : n.recipient # n.sender

\* C3: a task's completedAt is non-null if and only if its status is
\* completed, after any sequence of task creations, PUT updates (with or
\* without a status in the body) and PATCH status requests.
C3_CompletedAtIffCompleted ==
  \A t \in TaskIds :
    tasks[t].exists =>
      ((tasks[t].completedAt # NullDate) <=> (tasks[t].status = "completed"))

\* C4: every stored Notification has readAt non-null if and only if isRead
\* is true.
C4_ReadAtIffIsRead ==
  \A n \in notifications : (n.readAt # NullDate) <=> n.isRead

C4_Witness ==
  /\ last.op = "markAllRead"
  /\ \E n \in notifications :
       n.recipient = last.actor /\ n.isRead /\ n.readAt = now

\* C5: marking an unread Notification as read sets isRead and a non-null
\* readAt; a mark request (PATCH /:id/read or mark-all-read) leaves every
\* Notification that is already read exactly as it was, readAt included.
C5_MarkReadOnce ==
  [][\A n \in notifications :
       /\ (/\ ~n.isRead
           /\ last'.op = "markRead" /\ last'.code = 200 /\ last'.nid = n.id)
          => \E m \in notifications' :
               m.id = n.id /\ m.isRead /\ m.readAt # NullDate
       /\ (n.isRead /\ last'.op \in {"markRead", "markAllRead"})
          => n \in notifications']_vars

C5_Witness ==
  /\ last.op = "markRead"
  /\ last.code = 200
  /\ \E n \in notifications : n.id = last.nid /\ n.isRead /\ n.readAt < now

\* the last request moved the task's status from a non-completed value to
\* completed
Completing ==
  /\ last.op \in {"putTask", "patchStatus"}
  /\ last.code = 200
  /\ last.pre.status # "completed"
  /\ Post.status = "completed"

\* C6: a successful PATCH status or PUT that moves a task's status into
\* completed, whatever else the PUT changes, creates exactly one
\* task_completed Notification, addressed to the task's creator, when the
\* creator is not the acting user, and none when it is.
C6_CompletionNotifiesCreator ==
  Completing =>
    LET done == {n \in CreatedNow : n.type = "task_completed"}
    IN IF last.pre.createdBy # last.actor
       THEN \E n \in done : done = {n} /\ n.recipient = last.pre.createdBy
       ELSE done = {}

\* C7: a comment added by user U creates exactly one comment_added
\* Notification for each user among the assignee, the creator and the
\* authors of the comments already on the task, U excepted, and none for
\* anyone else.
C7_CommentRecipients ==
  (last.op = "addComment" /\ last.code = 201) =>
    LET expected ==
          ({last.pre.assignee_id, last.pre.createdBy}
             \cup {last.pre.comments[i].author :
                     i \in 1..Len(last.pre.comments)}) \ {last.actor}
        made == {n \in CreatedNow : n.type = "comment_added"}
    IN /\ \A u \in expected :
            Cardinality({n \in made : n.recipient = u}) = 1
       /\ \A n \in made : n.recipient \in expected

\* C8: a successful task creation creates exactly one Notification,
\* task_assigned from the creator to the assignee, when the assignee is not
\* the creator, and none when the assignee is the creator.
C8_CreationNotifiesAssignee ==
  (last.op = "createTask" /\ last.code = 201) =>
    IF Post.assignee_id # last.actor
    THEN \E n \in notifications :
           /\ CreatedNow = {n}
           /\ n.type = "task_assigned"
           /\ n.recipient = Post.assignee_id
           /\ n.sender = last.actor
    ELSE CreatedNow = {}

C8_Witness ==
  /\ last.op = "createTask"
  /\ last.code = 201
  /\ Post.assignee_id # last.actor
  /\ \E n \in CreatedNow : n.recipient = Post.assignee_id

\* C9: a successful PUT that changes the assignee creates exactly one
\* task_reassigned Notification, addressed to the new assignee (none when
\* the new assignee is the acting user); a PUT that leaves the assignee as
\* stored creates no task_reassigned Notification.
C9_ReassignmentNotifiesNewAssignee ==
  (last.op = "putTask" /\ last.code = 200) =>
    LET re == {n \in CreatedNow : n.type = "task_reassigned"}
    IN IF Post.assignee_id # last.pre.assignee_id
          /\ Post.assignee_id # last.actor
       THEN \E n \in re :
              re = {n} /\ n.recipient = Post.assignee_id
                       /\ n.sender = last.actor
       ELSE re = {}

C9_Witness ==
  /\ last.op = "putTask"
  /\ last.code = 200
  /\ Post.assignee_id # last.pre.assignee_id
  /\ \E n \in CreatedNow :
       n.type = "task_reassigned" /\ n.recipient = Post.assignee_id

\* C10: a successful PUT that neither changes the assignee nor moves the
\* status into completed creates exactly one Notification, task_updated to
\* the current assignee, when the assignee is not the acting user, and no
\* Notification when the assignee is the acting user.
C10_OtherUpdateNotifiesAssignee ==
  (/\ last.op = "putTask" /\ last.code = 200
   /\ Post.assignee_id = last.pre.assignee_id
   /\ ~Completing) =>
    IF Post.assignee_id # last.actor
    THEN \E n \in notifications :
           /\ CreatedNow = {n}
           /\ n.type = "task_updated"
           /\ n.recipient = Post.assignee_id
    ELSE CreatedNow = {}

\* C11: a call of createTaskNotification with a recipient different from
\* the sender and an event type outside task_assigned, task_updated,
\* task_completed and task_reassigned does not fail: exactly one
\* Notification is created and returned, with the title "Task Notification".
C11_UnknownTypeFallsBack ==
  (/\ last.op = "callTask"
   /\ IsIdentifier(last.call.recipient)
   /\ CastObjectId(last.call.recipient) # CastObjectId(last.call.sender)
   /\ last.call.type \notin {"task_assigned", "task_updated",
                              "task_completed", "task_reassigned"})
  => (/\ last.results[1].ok
      /\ last.results[1].title = "Task Notification"
      /\ \E n \in notifications :
           notifications = {n} /\ n.title = "Task Notification")

\* the ActivityLog entries the last request wrote
LoggedNow == {e \in activityLogs : e.id >= last.firstLogId}

\* the primary write of the last request is in the store
PrimaryWritten ==
  CASE last.op = "createTask" ->
         /\ Post.exists
         /\ Post.createdBy = last.actor
         /\ Post.status = "todo"
    [] last.op = "putTask" ->
         \E b \in UpdateBodies : Post = UpdatedTask(b, last.pre, now)
    [] last.op = "addComment" ->
         /\ Len(Post.comments) = Len(last.pre.comments) + 1
         /\ Post.comments[Len(Post.comments)].author = last.actor
         /\ Post.comments[Len(Post.comments)].id = last.cid
    [] OTHER -> FALSE

\* C12: when persisting a Notification or an ActivityLog entry fails during
\* a task creation, a PUT update or a comment addition, the failure is
\* swallowed (the helper returns null, nothing is stored in the failing
\* collection), the primary write stays persisted, the other side effect is
\* still made and the response is the success response.
C12_SideEffectFailureSwallowed ==
  (last.op \in {"createTask", "putTask", "addComment"}) =>
    /\ last.code = (IF last.op = "putTask" THEN 200 ELSE 201)
    /\ PrimaryWritten
    /\ "Notification" \in saveFails =>
         /\ CreatedNow = {}
         /\ \A i \in 1..Len(last.results) : ~last.results[i].ok
    /\ "ActivityLog" \in saveFails => LoggedNow = {}
    /\ "ActivityLog" \notin saveFails => Cardinality(LoggedNow) = 1

C12_Witness ==
  /\ last.op = "addComment"
  /\ last.code = 201
  /\ saveFails = Collections
  /\ last.results # <<>>
  /\ Post.comments # <<>>
  /\ notifications = {}
  /\ activityLogs = {}

\* C13: in the scenario (1) C creates a task for A, A # C, (2) A comments
\* on it, (3) C sets its status to completed by PUT or PATCH: step 1 leaves
\* exactly one task_assigned Notification to A and one ActivityLog entry by
\* C with action task_created or task_assigned; step 2 exactly one
\* comment_added Notification, addressed to C, and one task_commented
\* entry; step 3 no Notification and exactly one task_completed entry.
C13_Scenario ==
  /\ (/\ last.op = "createTask" /\ last.code = 201
      /\ Post.assignee_id # last.actor)
     => /\ \E n \in CreatedNow :
             /\ CreatedNow = {n}
             /\ n.type = "task_assigned"
             /\ n.recipient = Post.assignee_id
        /\ \E e \in LoggedNow :
             /\ LoggedNow = {e}
             /\ e.userId = last.actor
             /\ e.action \in {"task_created", "task_assigned"}
  /\ (/\ last.op = "addComment" /\ last.code = 201
      /\ last.pre.comments = <<>>
      /\ last.actor = last.pre.assignee_id
      /\ last.pre.assignee_id # last.pre.createdBy)
     => /\ \E n \in CreatedNow :
             /\ CreatedNow = {n}
             /\ n.type = "comment_added"
             /\ n.recipient = last.pre.createdBy
        /\ \E e \in LoggedNow :
             LoggedNow = {e} /\ e.action = "task_commented"
  /\ (/\ Completing
      /\ last.actor = last.pre.createdBy
      /\ last.pre.assignee_id # last.pre.createdBy
      /\ Len(last.pre.comments) = 1
      /\ last.pre.comments[1].author = last.pre.assignee_id)
     => /\ CreatedNow = {}
        /\ \E e \in LoggedNow :
             LoggedNow = {e} /\ e.action = "task_completed"

\* C14: each successful task creation, PUT update and comment addition
\* appends exactly one ActivityLog entry, whose userId is the acting user
\* and whose entity is the task written or the comment added, however many
\* Notifications the request created.
C14_OneLogEntryPerMutation ==
  (/\ last.op \in {"createTask", "putTask", "addComment"}
   /\ last.code \in {200, 201}) =>
    \E e \in LoggedNow :
      /\ LoggedNow = {e}
      /\ e.userId = last.actor
      /\ IF last.op = "addComment"
         THEN /\ e.entityType = "comment"
              /\ e.entityId = last.cid
              /\ e.relatedEntityId = last.tid
         ELSE e.entityType = "task" /\ e.entityId = last.tid

C14_Witness ==
  /\ last.op = "addComment"
  /\ last.code = 201
  /\ Cardinality(CreatedNow) = 2
  /\ \E e \in LoggedNow : LoggedNow = {e} /\ e.entityType = "comment"

\* C15: every successful change of a task's status, by PUT or by PATCH
\* status, appends an ActivityLog entry by the acting user: task_completed
\* when the new status is completed, task_status_changed otherwise.
C15_StatusChangeLogged ==
  (/\ last.op \in {"putTask", "patchStatus"}
   /\ last.code = 200
   /\ Post.status # last.pre.status) =>
    \E e \in LoggedNow :
      /\ e.userId = last.actor
      /\ e.entityId = last.tid
      /\ e.action = (IF Post.status = "completed" THEN "task_completed"
                     ELSE "task_status_changed")

\* C16: every successful comment edit appends a comment_updated
\* ActivityLog entry and every successful comment deletion a
\* comment_deleted entry, as a comment addition appends a task_commented
\* entry.
C16_CommentChangesLogged ==
  /\ (last.op = "addComment" /\ last.code = 201) =>
       \E e \in LoggedNow : e.action = "task_commented"
  /\ (last.op = "editComment" /\ last.code = 200) =>
       \E e \in LoggedNow : e.action = "comment_updated"
  /\ (last.op = "deleteComment" /\ last.code = 200) =>
       \E e \in LoggedNow : e.action = "comment_deleted"

\* C17: an ActivityLog entry once written is never modified, and only the
\* cleanup operation removes entries: every other request leaves every
\* stored entry as it was.
C17_AppendOnly ==
  [][\A e \in activityLogs :
       e \in activityLogs' \/ (last'.op = "cleanup" /\ last'.code = 200)]_vars

C17_Witness ==
  /\ last.op = "putTask"
  /\ last.code = 200
  /\ LoggedNow # {}
  /\ Cardinality(activityLogs \ LoggedNow) >= 2

\* the retention a cleanup request asks for, in half days
RequestedRetention(d) == IF d.kind = "absent" THEN 180 ELSE d.halves

\* C18: a cleanup with retention daysToKeep removes exactly the entries
\* created earlier than now minus daysToKeep days, leaves every other entry
\* unchanged and reports the number of entries it removed as deletedCount.
C18_CleanupRemovesOlderOnly ==
  [][(last'.op = "cleanup" /\ last'.code = 200) =>
       LET cutoff == now - RequestedRetention(last'.days)
       IN /\ activityLogs' = {e \in activityLogs : ~(e.createdAt < cutoff)}
          /\ last'.count = Cardinality(activityLogs \ activityLogs')]_vars

\* an entry satisfies the filters of a listing
Satisfies(e, q) ==
  /\ q.userId # Absent => e.userId = q.userId
  /\ q.action # Absent => e.action = q.action
  /\ q.entityType # Absent => e.entityType = q.entityType
  /\ q.startDate # NullDate => e.createdAt >= q.startDate
  /\ q.endDate # NullDate => e.createdAt <= q.endDate

\* C19: for a listing with page p, limit l and any filters, the page has
\* at most l entries, all of them stored entries that satisfy the filters,
\* newest first, and the reported total is the number of stored entries
\* that satisfy the filters.
C19_ListingPage ==
  (last.op = "listLogs" /\ last.code = 200) =>
    /\ Len(last.page) <= last.query.limit
    /\ \A i \in 1..Len(last.page) :
         last.page[i] \in activityLogs /\ Satisfies(last.page[i], last.query)
    /\ \A i, j \in 1..Len(last.page) :
         i < j => last.page[i].createdAt >= last.page[j].createdAt
    /\ last.count =
         Cardinality({e \in activityLogs : Satisfies(e, last.query)})

\* the comment the last comment request addressed, as stored before it
Addressed ==
  {last.pre.comments[i] : i \in CommentAt(last.pre.comments, last.cid)}

C21_NoTaskOnDeletedProject ==
  \A t \in TaskIds :
    (tasks[t].exists /\ tasks[t].project_id # NoProjectId) =>
      projects[tasks[t].project_id].state # "deleted"

\* C22: a request to a documented literal path reaches its own handler:
\* DELETE /api/notifications/clear-all answers 200 and removes exactly the
\* requesting user's read notifications, and GET /api/tasks/my-tasks
\* answers 200 with the tasks assigned to the requesting user.
C22_LiteralPathsReachTheirHandler ==
  [][/\ (last'.segment = ClearAllSegment) =>
          /\ last'.code = 200
          /\ notifications' =
               {n \in notifications :
                  ~(n.recipient = last'.actor /\ n.isRead)}
     /\ (last'.segment = MyTasksSegment) =>
          /\ last'.code = 200
          /\ {last'.page[i] : i \in 1..Len(last'.page)} =
               {t \in TaskIds : /\ tasks[t].exists
                                /\ tasks[t].assignee_id = last'.actor}]_vars

\* C23: the message of a comment_added Notification contains the task
\* title and the comment text: the text as it is when it has at most 50
\* characters, otherwise its first 50 characters followed by "...".
C23_CommentMessage ==
  LET Contains(whole, part) ==
        \E i \in 0..(Len(whole) - Len(part)) :
          SubSeq(whole, i + 1, i + Len(part)) = part
  IN (last.op = "callComment" /\ last.results[1].ok) =>
       /\ Contains(last.message, last.title)
       /\ Contains(last.message,
                   <<"\"">> \o
                   (IF Len(last.text) <= 50 THEN last.text
                    ELSE SubSeq(last.text, 1, 50) \o <<".", ".", ".">>)
                   \o <<"\"">>)

C23_Witness ==
  /\ last.op = "callComment"
  /\ last.results[1].ok
  /\ notifications # {}
  /\ Len(last.text) = 51
  /\ SubSeq(last.message, Len(last.message) - 4, Len(last.message)) =
       <<last.text[50], ".", ".", ".", "\"">>
  /\ last.text[51] # last.text[50]

\* C24: completedAt is non-null exactly when the status is completed, in
\* every state reached when requests that write the status of a task
\* (PATCH /:id/status, PUT /:id with a status) interleave.
C24_CompletedAtUnderInterleaving ==
  \A t \in TaskIds :
    tasks[t].exists =>
      ((tasks[t].completedAt # NullDate) <=> (tasks[t].status = "completed"))

\* C25: within a request the primary write precedes its side effects: a
\* request of POST /, PUT /:id or POST /:id/comments that is rejected (400,
\* 403, 404) or whose write of the task fails (500) stores no Notification
\* and no ActivityLog entry, and a request that stores one has answered 200
\* or 201 with its task written.
C25_PrimaryWriteBeforeSideEffects ==
  [][/\ (last'.op = "rejected" \/ "Task" \in saveFails) =>
          /\ last'.code \in {400, 403, 404, 500}
          /\ notifications' = notifications
          /\ activityLogs' = activityLogs
          /\ tasks' = tasks
     /\ (notifications' # notifications \/ activityLogs' # activityLogs) =>
          /\ last'.op \in {"createTask", "putTask", "addComment"}
          /\ last'.code \in {200, 201}
          /\ "Task" \notin saveFails
          /\ tasks'[last'.tid].exists
          /\ last'.op = "addComment" =>
                (/\ tasks'[last'.tid].comments # <<>>
                 /\ tasks'[last'.tid].comments # tasks[last'.tid].comments)
    ]_vars

C25_Witness ==
  /\ last.op = "rejected"
  /\ last.code = 500
  /\ saveFails = {"Task"}
  /\ \E t \in TaskIds : tasks[t].exists
  /\ notifications = {}
  /\ activityLogs = {}

\* C26: when comment mutations on a task interleave so that every handler
\* loads the task before any of them saves, no save is rejected by a
\* version check and each save leaves the comment list that its handler
\* produced, so that the final list is that of the handler that saved last.
C26_LastWriteWins ==
  [][\A s \in Slots :
       (/\ pending[s].op \in {"addComment", "editComment", "deleteComment"}
        /\ pending'[s].op = "idle") =>
         /\ last'.code \in {200, 201}
         /\ tasks'[pending[s].tid].comments = ProducedComments(pending[s])
    ]_vars

C28_ReadAtNeverChanges ==
  [][\A n \in notifications :
       n.readAt # NullDate =>
         \A m \in notifications' : m.id = n.id => m.readAt = n.readAt]_vars

\* C29: a notification request by user U (list, unread count, mark one
\* read, mark all or selected read, delete one, clear read) leaves the
\* notifications of every other user as they were, whatever identifiers U
\* supplies, and a listing or count answers from U's notifications only.
C29_NotificationIsolation ==
  [][LET NotificationsOf(store, v) == {n \in store : n.recipient = v}
     IN /\ \A v \in Users :
             v # last'.actor =>
               NotificationsOf(notifications', v) =
                 NotificationsOf(notifications, v)
        /\ last'.op = "listNotifs" =>
             /\ \A i \in 1..Len(last'.page) :
                  \E n \in NotificationsOf(notifications, last'.actor) :
                    n.id = last'.page[i]
             /\ last'.total <=
                  Cardinality(NotificationsOf(notifications, last'.actor))
        /\ last'.op \in {"listNotifs", "unreadCount"} =>
             last'.count =
               Cardinality(
                 {n \in NotificationsOf(notifications, last'.actor) :
                    ~n.isRead})
       ]_vars

C29_Witness ==
  /\ last.op = "deleteNotif"
  /\ last.code = 404
  /\ \E n \in notifications :
       /\ n.id = last.segment.nid
       /\ n.recipient # last.actor
  /\ \E n \in notifications : n.recipient = last.actor

\* C30: PATCH /api/tasks/:id/status changes only the status and the
\* completedAt of the addressed task, to a status of the enum: its other
\* fields, the comments included, and every other task are unchanged; a
\* request that is refused (400 for a status that is missing or outside
\* the enum, 404) changes no task.
C30_PatchFrame ==
  [][/\ last'.op \in {"patchStatus", "rejected"}
     /\ last'.op = "rejected" =>
          /\ last'.code \in {400, 404}
          /\ tasks' = tasks
     /\ last'.op = "patchStatus" =>
          /\ last'.code = 200
          /\ tasks'[last'.tid].status \in Statuses
          /\ tasks' = [tasks EXCEPT
                         ![last'.tid].status = tasks'[last'.tid].status,
                         ![last'.tid].completedAt =
                           tasks'[last'.tid].completedAt]
    ]_vars

C30_Witness ==
  /\ last.op = "patchStatus"
  /\ last.code = 200
  /\ Post.status # last.pre.status
  /\ Post.completedAt # last.pre.completedAt
  /\ Post.comments # <<>>
  /\ \E t \in TaskIds : t # last.tid /\ tasks[t].exists
====
